---- MODULE Spec2Model ----
(***************************************************************************)
(* Prime PenTrix "brain": the in-memory BM25 lexical index                 *)
(* (src/brain/rag/bm25.py) and the RAG engine that drives it               *)
(* (src/brain/rag/engine.py).                                              *)
(*                                                                         *)
(* Representation.                                                         *)
(*  - A text is a sequence of whitespace-separated words; the empty        *)
(*    sequence is the blank string.                                        *)
(*  - A Python dict is a function whose DOMAIN is the set of keys.  A      *)
(*    posting list (dict doc_id -> tf) is a sequence of [doc, tf] records  *)
(*    in insertion order, because search iterates it in that order.        *)
(*  - avgdl is the float sum/count; it is kept as the reduced fraction     *)
(*    [num, den], which for these small integers is equal exactly when     *)
(*    the floats are equal.                                                *)
(*  - A BM25 score is kept in fixed point, 10000 units per 1.0, with       *)
(*    math.log read from a table of natural logarithms.                    *)
(***************************************************************************)
EXTENDS Integers, Sequences, FiniteSets, TLC

\* ---------------------------------------------------------------- bounds
MaxWords == 2        \* words per document text / query
MaxDocCount == 3     \* cap on doc_count (it grows without bound on re-adds)
MaxLimit == 2        \* largest search limit tried
MaxBatch == 2        \* entries per add_documents batch
MaxChars == 8        \* characters per short text given to the chunker
MaxChunkSize == 5    \* largest chunk_size of the fixed-window configurations
MaxFixedChars == 6   \* characters per text cut into fixed windows
MaxTf == 3           \* term frequencies compared by the monotonicity check

\* ------------------------------------------------------------- constants
K1Num == 3           \* k1 = 1.5 = K1Num / K1Den
K1Den == 2
BNum == 3            \* b = 0.75 = BNum / BDen
BDen == 4

\* ---------------------------------------------------------------- inputs
DocIds == {"c1", "c2"}
BlankId == " "
IdInputs == DocIds \cup {BlankId}

\* words of document texts: two content words, one of them capitalised, and
\* the stop word "the"
DocWords == {"subnet", "Mask"}
StopTexts == {<<"the">>, <<"the", "subnet">>}
QueryWords == {"subnet", "mask", "the"}

\* the metadata argument: None (the default)
None == [is_none |-> TRUE]
NoMeta == None
Metas == {NoMeta}

RECURSIVE SeqsUpTo(_, _)
SeqsUpTo(S, n) ==
  IF n = 0 THEN {<<>>}
  ELSE LET shorter == SeqsUpTo(S, n - 1)
       IN  shorter \cup {Append(s, w) : s \in shorter, w \in S}

Texts == SeqsUpTo(DocWords, MaxWords) \cup StopTexts
Queries == SeqsUpTo(QueryWords, MaxWords)
Limits == 1..MaxLimit

\* queries given to the engine: the blank query and the one-word queries
EngineQueries == {q \in Queries : Len(q) <= 1}

\* entries of an add_documents batch: (doc_id, text, metadata)
BatchEntries ==
  {<<"c1", <<"Mask", "subnet">>, NoMeta>>, <<"c2", <<"subnet">>, NoMeta>>,
   <<"c2", <<>>, NoMeta>>, <<BlankId, <<"subnet">>, NoMeta>>}
Batches == SeqsUpTo(BatchEntries, MaxBatch)

\* --------------------------------------------------------------- helpers
Max(a, b) == IF a >= b THEN a ELSE b
Min(a, b) == IF a <= b THEN a ELSE b

RECURSIVE Gcd(_, _)
Gcd(a, b) == IF b = 0 THEN a ELSE Gcd(b, a % b)

\* the float a / b (b > 0), as a reduced fraction
Div(a, b) ==
  LET g == Gcd(a, b)
  IN  IF a = 0 THEN [num |-> 0, den |-> 1]
      ELSE [num |-> a \div g, den |-> b \div g]

Zero == [num |-> 0, den |-> 1]

Range(s) == {s[i] : i \in 1..Len(s)}

RECURSIVE SumOver(_, _)
SumOver(f, S) ==
  IF S = {} THEN 0
  ELSE LET k == CHOOSE k \in S : TRUE
       IN  f[k] + SumOver(f, S \ {k})

\* sum(d.values())
SumValues(f) == SumOver(f, DOMAIN f)

\* dict without key k
DelKey(f, k) == [j \in (DOMAIN f) \ {k} |-> f[j]]

\* dict with f[k] = v
SetKey(f, k, v) == [j \in (DOMAIN f) \cup {k} |-> IF j = k THEN v ELSE f[j]]

EmptyDict == [j \in {} |-> 0]

\* ---------------------------------------------------------- tokenization
STOP_WORDS == {"the"}

\* text.lower(), word by word
Lower(w) == IF w = "Mask" THEN "mask" ELSE w

\* the filter with a defect: stop words are kept
KeepTokenAndStopWords(t) == Len(t) > 1

\* t not in self.STOP_WORDS and len(t) > 1
KeepToken(t) == t \notin STOP_WORDS /\ Len(t) > 1

_tokenize(text) ==
  LET lowered == [i \in 1..Len(text) |-> Lower(text[i])]
  IN  SelectSeq(lowered, KeepToken)

\* text.strip() is empty
IsBlank(text) == text = <<>>

\* Counter(tokens)[term]
CountOf(term, tokens) == Cardinality({i \in 1..Len(tokens) : tokens[i] = term})

\* keys of Counter(tokens), in first-occurrence order
RECURSIVE DistinctInOrder(_)
DistinctInOrder(tokens) ==
  IF tokens = <<>> THEN <<>>
  ELSE LET front == DistinctInOrder(SubSeq(tokens, 1, Len(tokens) - 1))
           t == tokens[Len(tokens)]
       IN  IF t \in Range(front) THEN front ELSE Append(front, t)

\* ---------------------------------------------------------- posting lists
PostingDocs(p) == {p[i].doc : i \in 1..Len(p)}

\* posting[doc_id] = freq   (an existing key keeps its position)
PostingSet(p, doc_id, freq) ==
  IF doc_id \in PostingDocs(p)
  THEN [i \in 1..Len(p) |-> IF p[i].doc = doc_id
                            THEN [doc |-> doc_id, tf |-> freq] ELSE p[i]]
  ELSE Append(p, [doc |-> doc_id, tf |-> freq])

NotDoc(doc_id, e) == e.doc # doc_id

\* del posting[doc_id]
PostingDel(p, doc_id) ==
  LET Keep(e) == NotDoc(doc_id, e) IN SelectSeq(p, Keep)

\* --------------------------------------------------------------- BM25Index
\* BM25Index.__init__
NewIndex ==
  [doc_count |-> 0,
   avgdl |-> Zero,
   doc_lengths |-> EmptyDict,
   doc_freqs |-> EmptyDict,
   inverted_index |-> EmptyDict,
   doc_texts |-> EmptyDict,
   doc_metadata |-> EmptyDict]

\* the expression with a defect: the divisor is the count before the update
MeanOfStaleCount(lengths, count) ==
  Div(SumValues(lengths), Max(count - 1, 1))

\* sum(self.doc_lengths.values()) / max(self.doc_count, 1)
Mean(lengths, count) == Div(SumValues(lengths), Max(count, 1))

\* metadata or {}
OrEmpty(metadata) == IF metadata = None THEN EmptyDict ELSE metadata

\* the loop of add_document over term_counts.items()
RECURSIVE AddLoop(_, _, _, _)
AddLoop(self, terms, tokens, doc_id) ==
  IF terms = <<>> THEN self
  ELSE LET term == Head(terms)
           freq == CountOf(term, tokens)
           posting == IF term \in DOMAIN self.inverted_index
                      THEN self.inverted_index[term] ELSE <<>>
           df == IF term \in DOMAIN self.doc_freqs
                 THEN self.doc_freqs[term] ELSE 0
           next == [self EXCEPT
                      !.inverted_index =
                          SetKey(@, term, PostingSet(posting, doc_id, freq)),
                      !.doc_freqs = SetKey(@, term, df + 1)]
       IN  AddLoop(next, Tail(terms), tokens, doc_id)

add_document(self, doc_id, text, metadata) ==
  IF IsBlank(text) THEN self
  ELSE IF doc_id = BlankId THEN self
  ELSE LET tokens == _tokenize(text)
           stored == [self EXCEPT
                        !.doc_texts = SetKey(@, doc_id, text),
                        !.doc_metadata = SetKey(@, doc_id, OrEmpty(metadata)),
                        !.doc_lengths = SetKey(@, doc_id, Len(tokens))]
           looped == AddLoop(stored, DistinctInOrder(tokens), tokens, doc_id)
           count == looped.doc_count + 1
       IN  [looped EXCEPT
              !.doc_count = count,
              !.avgdl = Mean(looped.doc_lengths, count)]

\* add_documents: the index after the batch, and the returned count
RECURSIVE add_documents(_, _)
add_documents(self, documents) ==
  IF documents = <<>> THEN [index |-> self, count |-> 0]
  ELSE LET d == Head(documents)
           rest == add_documents(add_document(self, d[1], d[2], d[3]),
                                 Tail(documents))
       IN  [index |-> rest.index, count |-> rest.count + 1]

\* lines 127-137 with a defect: an emptied posting list is deleted but its
\* doc_freqs entry is left behind
RemoveStepKeepsDf(self, token, doc_id) ==
  IF /\ token \in DOMAIN self.inverted_index
     /\ doc_id \in PostingDocs(self.inverted_index[token])
  THEN LET posting == PostingDel(self.inverted_index[token], doc_id)
           df == IF token \in DOMAIN self.doc_freqs
                 THEN self.doc_freqs[token] ELSE 0
       IN  IF posting = <<>>
           THEN [self EXCEPT !.inverted_index = DelKey(@, token),
                             !.doc_freqs = SetKey(@, token, Max(0, df - 1))]
           ELSE [self EXCEPT !.inverted_index = SetKey(@, token, posting),
                             !.doc_freqs = SetKey(@, token, Max(0, df - 1))]
  ELSE self

\* remove_document, lines 127-137: what the loop does for a token not seen yet
RemoveStep(self, token, doc_id) ==
  IF /\ token \in DOMAIN self.inverted_index
     /\ doc_id \in PostingDocs(self.inverted_index[token])
  THEN LET posting == PostingDel(self.inverted_index[token], doc_id)
           df == IF token \in DOMAIN self.doc_freqs
                 THEN self.doc_freqs[token] ELSE 0
       IN  IF posting = <<>>
           THEN [self EXCEPT !.inverted_index = DelKey(@, token),
                             !.doc_freqs = DelKey(@, token)]
           ELSE [self EXCEPT !.inverted_index = SetKey(@, token, posting),
                             !.doc_freqs = SetKey(@, token, Max(0, df - 1))]
  ELSE self

\* the loop of remove_document over tokens, with its seen_terms set
RECURSIVE RemoveLoop(_, _, _, _)
RemoveLoop(self, tokens, seen_terms, doc_id) ==
  IF tokens = <<>> THEN self
  ELSE LET token == Head(tokens)
           next == IF token \notin seen_terms
                   THEN RemoveStep(self, token, doc_id) ELSE self
       IN  RemoveLoop(next, Tail(tokens), seen_terms \cup {token}, doc_id)

\* lines 122-150 with a defect: doc_count is not decremented
RemoveStoredKeepsCount(self, doc_id) ==
  LET tokens == _tokenize(self.doc_texts[doc_id])
      looped == RemoveLoop(self, tokens, {}, doc_id)
      count == looped.doc_count
      lengths == DelKey(looped.doc_lengths, doc_id)
  IN  [looped EXCEPT
         !.doc_texts = DelKey(@, doc_id),
         !.doc_lengths = lengths,
         !.doc_metadata = DelKey(@, doc_id),
         !.doc_count = count,
         !.avgdl = IF count > 0 THEN Mean(lengths, count) ELSE Zero]

\* remove_document, lines 122-150: the removal of a stored document
RemoveStored(self, doc_id) ==
  LET tokens == _tokenize(self.doc_texts[doc_id])
      looped == RemoveLoop(self, tokens, {}, doc_id)
      count == looped.doc_count - 1
      lengths == DelKey(looped.doc_lengths, doc_id)
  IN  [looped EXCEPT
         !.doc_texts = DelKey(@, doc_id),
         !.doc_lengths = lengths,
         !.doc_metadata = DelKey(@, doc_id),
         !.doc_count = count,
         !.avgdl = IF count > 0 THEN Mean(lengths, count) ELSE Zero]

\* remove_document with a defect: doc_count is decremented before the
\* membership test
remove_document_counts_first(self, doc_id) ==
  IF doc_id \notin DOMAIN self.doc_texts
  THEN [self EXCEPT !.doc_count = Max(0, @ - 1)]
  ELSE RemoveStored(self, doc_id)

remove_document(self, doc_id) ==
  IF doc_id \notin DOMAIN self.doc_texts THEN self
  ELSE RemoveStored(self, doc_id)

\* a clear that resets the counters and the stored documents but keeps the
\* posting lists and their df entries
clear_keeps_postings(self) ==
  [NewIndex EXCEPT !.inverted_index = self.inverted_index,
                   !.doc_freqs = self.doc_freqs]

clear(self) == NewIndex

\* BM25Index.size
size(self) == self.doc_count

\* ------------------------------------------------------------------ search
\* 10000 * ln(n), n = 1..20, rounded to the nearest integer: math.log
LnTable ==
  <<0, 6931, 10986, 13863, 16094, 17918, 19459, 20794, 21972, 23026,
    23979, 24849, 25649, 26391, 27081, 27726, 28332, 28904, 29444, 29957>>

\* math.log(r) for a fraction r of two table entries, in units of 1/10000
Log(r) == LnTable[r.num] - LnTable[r.den]

\* the expression with a defect: the "+ 1.0" of the formula is missing
IdfArgWithoutOne(N, df) ==
  [num |-> 2 * (N - df) + 1, den |-> 2 * df + 1]

\* (N - df + 0.5) / (df + 0.5) + 1.0, numerator and denominator doubled
IdfArg(N, df) ==
  [num |-> (2 * (N - df) + 1) + (2 * df + 1), den |-> 2 * df + 1]

\* idf = math.log((doc_count - df + 0.5) / (df + 0.5) + 1.0)
Idf(N, df) == Log(IdfArg(N, df))

\* tf_norm = tf*(k1+1) / (tf + k1*(1 - b + b*dl/avgdl)) as a fraction, with
\* k1 = K1Num/K1Den, b = BNum/BDen and avgdl = avgdl.num/avgdl.den (num > 0)
TfNorm(tf, dl, avgdl) ==
  [num |-> tf * (K1Num + K1Den) * BDen * avgdl.num,
   den |-> K1Den * BDen * avgdl.num * tf
           + K1Num * ((BDen - BNum) * avgdl.num + BNum * dl * avgdl.den)]

\* idf * tf_norm, in units of 1/10000
Contribution(N, df, tf, dl, avgdl) ==
  LET t == TfNorm(tf, dl, avgdl)
  IN  (Idf(N, df) * t.num) \div t.den

\* the (term, doc_id, tf) triples the two nested loops of search visit, in order
RECURSIVE Visits(_, _)
Visits(self, query_tokens) ==
  IF query_tokens = <<>> THEN <<>>
  ELSE LET term == Head(query_tokens)
           rest == Visits(self, Tail(query_tokens))
       IN  IF term \notin DOMAIN self.inverted_index THEN rest
           ELSE LET p == self.inverted_index[term]
                IN  [i \in 1..Len(p) |->
                       [term |-> term, doc |-> p[i].doc, tf |-> p[i].tf]] \o rest

ScoreIds(scores) == {scores[i].id : i \in 1..Len(scores)}

\* scores[doc_id] += x on a defaultdict(float): a new key goes last
ScoreAdd(scores, doc_id, x) ==
  IF doc_id \in ScoreIds(scores)
  THEN [i \in 1..Len(scores) |->
          IF scores[i].id = doc_id
          THEN [id |-> doc_id, score |-> scores[i].score + x] ELSE scores[i]]
  ELSE Append(scores, [id |-> doc_id, score |-> x])

\* the scoring loops: the scores dict, or the exception that ends the call
RECURSIVE ScoreLoop(_, _, _)
ScoreLoop(self, visits, scores) ==
  IF visits = <<>> THEN [scores |-> scores, err |-> "none"]
  ELSE LET v == Head(visits)
           df == IF v.term \in DOMAIN self.doc_freqs
                 THEN self.doc_freqs[v.term] ELSE 0
       IN  IF v.doc \notin DOMAIN self.doc_lengths
           THEN [scores |-> scores, err |-> "KeyError"]
           ELSE IF self.avgdl.num = 0
           THEN [scores |-> scores, err |-> "ZeroDivisionError"]
           ELSE ScoreLoop(self, Tail(visits),
                  ScoreAdd(scores, v.doc,
                    Contribution(self.doc_count, df, v.tf,
                                 self.doc_lengths[v.doc], self.avgdl)))

\* the step with a defect: x goes before the elements of equal score, as an
\* ascending sort that is then reversed does
InsertDescBeforeTies(sorted, x) ==
  LET before == {i \in 1..Len(sorted) : sorted[i].score > x.score}
      n == Cardinality(before)
  IN  SubSeq(sorted, 1, n) \o <<x>> \o SubSeq(sorted, n + 1, Len(sorted))

\* one step of the stable descending sort: x goes after every element whose
\* score is >= its own
InsertDesc(sorted, x) ==
  LET before == {i \in 1..Len(sorted) : sorted[i].score >= x.score}
      n == Cardinality(before)
  IN  SubSeq(sorted, 1, n) \o <<x>> \o SubSeq(sorted, n + 1, Len(sorted))

\* sorted(scores.items(), key=lambda x: x[1], reverse=True)
RECURSIVE SortDesc(_)
SortDesc(items) ==
  IF items = <<>> THEN <<>>
  ELSE InsertDesc(SortDesc(SubSeq(items, 1, Len(items) - 1)),
                  items[Len(items)])

\* ranked[:limit]
Slice(ranked, limit) ==
  IF limit >= 0 THEN SubSeq(ranked, 1, Min(limit, Len(ranked)))
  ELSE SubSeq(ranked, 1, Max(0, Len(ranked) + limit))

search(self, query, limit) ==
  IF self.doc_count = 0 THEN [ret |-> <<>>, err |-> "none"]
  ELSE LET query_tokens == _tokenize(query)
       IN  IF query_tokens = <<>> THEN [ret |-> <<>>, err |-> "none"]
           ELSE LET scored == ScoreLoop(self, Visits(self, query_tokens), <<>>)
                IN  IF scored.err # "none"
                    THEN [ret |-> <<>>, err |-> scored.err]
                    ELSE [ret |-> Slice(SortDesc(scored.scores), limit),
                          err |-> "none"]

\* ------------------------------------------------------------- the store
\* The PostgreSQL tables read by get_all_chunks_for_subject: documents in
\* upload order (oldest first) and their chunks.
Subjects == {"s1", "s2"}
Users == {"u1"}

DocumentRows ==
  <<[id |-> "d1", subjectId |-> "s1", userId |-> "u1", status |-> "completed",
     filename |-> "a.pdf", originalName |-> "A.pdf"],
    [id |-> "d2", subjectId |-> "s2", userId |-> "u1", status |-> "completed",
     filename |-> "b.txt", originalName |-> "B.txt"],
    [id |-> "d3", subjectId |-> "s1", userId |-> "u1", status |-> "processing",
     filename |-> "c.md", originalName |-> "C.md"]>>

ChunkRows ==
  {[id |-> "k1", documentId |-> "d1", chunkIndex |-> 0, pageNumber |-> 1,
    content |-> <<"subnet">>],
   [id |-> "k2", documentId |-> "d1", chunkIndex |-> 1, pageNumber |-> 2,
    content |-> <<"the", "Mask">>],
   [id |-> "k3", documentId |-> "d2", chunkIndex |-> 0, pageNumber |-> 0,
    content |-> <<"the">>],
   [id |-> "k4", documentId |-> "d3", chunkIndex |-> 0, pageNumber |-> 0,
    content |-> <<"subnet", "subnet">>]}

ChunkIds == {c.id : c \in ChunkRows}

\* the stores tried: any subset of the documents, each with all its chunks
StoreOf(ids) ==
  LET Present(d) == d.id \in ids
  IN  [documents |-> SelectSeq(DocumentRows, Present),
       chunks |-> {c \in ChunkRows : c.documentId \in ids}]

Stores == {StoreOf(ids) : ids \in SUBSET {"d1", "d2", "d3"}}

Reverse(seq) == [i \in 1..Len(seq) |-> seq[Len(seq) + 1 - i]]

\* the chunks of a set, ORDER BY "chunkIndex" ASC
RECURSIVE ByChunkIndex(_)
ByChunkIndex(chunks) ==
  IF chunks = {} THEN <<>>
  ELSE LET c == CHOOSE c \in chunks :
                  \A o \in chunks : c.chunkIndex <= o.chunkIndex
       IN  <<c>> \o ByChunkIndex(chunks \ {c})

\* the SELECT of get_all_chunks_for_subject for the documents already ordered
RECURSIVE ChunksOfDocuments(_, _)
ChunksOfDocuments(db, documents) ==
  IF documents = <<>> THEN <<>>
  ELSE LET d == Head(documents)
           rows == ByChunkIndex({c \in db.chunks : c.documentId = d.id})
       IN  [i \in 1..Len(rows) |->
              [id |-> rows[i].id,
               content |-> rows[i].content,
               chunk_index |-> rows[i].chunkIndex,
               page_number |-> rows[i].pageNumber,
               document_id |-> rows[i].documentId,
               filename |-> d.filename,
               original_name |-> d.originalName]]
           \o ChunksOfDocuments(db, Tail(documents))

get_all_chunks_for_subject(db, subject_id, user_id) ==
  LET InScope(d) == /\ d.subjectId = subject_id
                    /\ d.userId = user_id
                    /\ d.status = "completed"
  IN  ChunksOfDocuments(db, Reverse(SelectSeq(db.documents, InScope)))

\* ----------------------------------------------------------------- RAGEngine
\* {k: v for k, v in chunk.items() if k not in ("id", "content")}
ChunkMetadata(chunk) ==
  [k \in (DOMAIN chunk) \ {"id", "content"} |-> chunk[k]]

\* index_chunks: the index after the loop, and the returned count
RECURSIVE index_chunks(_, _)
index_chunks(index, chunks) ==
  IF chunks = <<>> THEN [index |-> index, count |-> 0]
  ELSE LET chunk == Head(chunks)
           added == add_document(index, chunk.id, chunk.content,
                                 ChunkMetadata(chunk))
           rest == index_chunks(added, Tail(chunks))
       IN  [index |-> rest.index, count |-> rest.count + 1]

RECURSIVE remove_document_from_index(_, _)
remove_document_from_index(index, chunk_ids) ==
  IF chunk_ids = <<>> THEN index
  ELSE remove_document_from_index(remove_document(index, Head(chunk_ids)),
                                  Tail(chunk_ids))

\* rebuild_bm25_index; store_ok says whether the database read succeeds
rebuild_bm25_index(index, db, subject_id, user_id, store_ok) ==
  IF ~store_ok
  THEN [index |-> clear(index), count |-> 0, err |-> "DatabaseError"]
  ELSE LET r == index_chunks(clear(index),
                             get_all_chunks_for_subject(db, subject_id, user_id))
       IN  [index |-> r.index, count |-> r.count, err |-> "none"]

\* QueryExpander.expand: the query, possibly followed by a synonym of one of
\* its terms; a query without terms has nothing to expand
SynonymWords == {"mask"}

Expansions(query, subject_id) ==
  IF _tokenize(query) = <<>> THEN {query}
  ELSE {query} \cup {Append(query, w) : w \in SynonymWords}

\* metadata.get(key, default)
Get(dict, key, default) == IF key \in DOMAIN dict THEN dict[key] ELSE default

\* the "Enrich with metadata" loop of bm25_search
Enrich(index, results) ==
  [i \in 1..Len(results) |->
     LET doc_id == results[i].id
         metadata == Get(index.doc_metadata, doc_id, EmptyDict)
     IN  [id |-> doc_id,
          content |-> Get(index.doc_texts, doc_id, <<>>),
          score |-> results[i].score,
          search_type |-> "bm25",
          chunk_index |-> Get(metadata, "chunk_index", 0),
          page_number |-> Get(metadata, "page_number", 0),
          document_id |-> Get(metadata, "document_id", ""),
          filename |-> Get(metadata, "filename", ""),
          original_name |-> Get(metadata, "original_name", "")]]

\* bm25_search, given the query the expander produced: the index after the
\* call (it is rebuilt when it was empty), the enriched results, the exception
bm25_search(index, db, search_query, subject_id, user_id, top_k, store_ok) ==
  LET rebuilt == IF size(index) = 0
                 THEN rebuild_bm25_index(index, db, subject_id, user_id, store_ok)
                 ELSE [index |-> index, count |-> 0, err |-> "none"]
      results == search(rebuilt.index, search_query, top_k)
  IN  IF rebuilt.err # "none"
      THEN [index |-> rebuilt.index, ret |-> <<>>, err |-> rebuilt.err]
      ELSE IF results.err # "none"
      THEN [index |-> rebuilt.index, ret |-> <<>>, err |-> results.err]
      ELSE [index |-> rebuilt.index, ret |-> Enrich(rebuilt.index, results.ret),
            err |-> "none"]

\* ------------------------------------------------------- EmbeddingClient
\* the api_key values tried: unset, blank, set
ApiKeys == {"", " ", "sk-test"}

\* api_key.strip()
Strip(api_key) == IF api_key = " " THEN "" ELSE api_key

NewEmbeddingClient(api_key) == [api_key |-> api_key]

\* is_configured: bool(self.api_key and self.api_key.strip())
is_configured(self) == self.api_key # "" /\ Strip(self.api_key) # ""

\* no embedding (None); the same value stands for a NULL embedding column
NoEmbedding == ""

\* the vector the embeddings API returns for a text
EmbeddingOf(text) ==
  IF text = <<"subnet">> THEN "e1"
  ELSE IF text = <<"mask">> THEN "e2"
  ELSE "e3"

_MAX_CACHE_SIZE == 500

\* the module-level _embedding_cache, a dict in insertion order
CacheKeys(cache) == {cache[i].text : i \in 1..Len(cache)}

CacheGet(cache, text) ==
  LET i == CHOOSE i \in 1..Len(cache) : cache[i].text = text
  IN  cache[i].embedding

\* for k in keys[: _MAX_CACHE_SIZE // 4]: del _embedding_cache[k]
Evict(cache) ==
  IF Len(cache) >= _MAX_CACHE_SIZE
  THEN SubSeq(cache, Min(Len(cache), _MAX_CACHE_SIZE \div 4) + 1, Len(cache))
  ELSE cache

\* embed_text with use_cache = True; api_ok says whether the HTTP call
\* succeeds (every exception of the call is caught and gives None)
embed_text(self, cache, text, api_ok) ==
  IF ~is_configured(self)
  THEN [embedding |-> NoEmbedding, cache |-> cache]
  ELSE IF text \in CacheKeys(cache)
  THEN [embedding |-> CacheGet(cache, text), cache |-> cache]
  ELSE IF api_ok
  THEN [embedding |-> EmbeddingOf(text),
        cache |-> Append(Evict(cache),
                         [text |-> text, embedding |-> EmbeddingOf(text)])]
  ELSE [embedding |-> NoEmbedding, cache |-> cache]

\* ------------------------------------------------- pgvector search (store)
\* document_chunks.embedding of each chunk row ("" is NULL)
ChunkEmbeddings ==
  [id \in ChunkIds |->
     IF id = "k1" THEN "e1"
     ELSE IF id = "k2" THEN "e2"
     ELSE IF id = "k3" THEN "e1"
     ELSE NoEmbedding]

\* 1 - (embedding <=> query) in hundredths
Similarity(query_embedding, embedding) ==
  IF query_embedding = "e3" \/ embedding = "e3" THEN 20
  ELSE IF query_embedding = embedding THEN 100
  ELSE 50

\* min_similarity = 0.3, in hundredths
min_similarity == 30

\* rows ORDER BY embedding <=> query (nearest first)
RECURSIVE ByDistance(_, _)
ByDistance(rows, query_embedding) ==
  IF rows = {} THEN <<>>
  ELSE LET Sim(c) == Similarity(query_embedding, ChunkEmbeddings[c.id])
           c == CHOOSE c \in rows : \A o \in rows : Sim(c) >= Sim(o)
       IN  <<c>> \o ByDistance(rows \ {c}, query_embedding)

\* database.semantic_search; vector_ok says whether the database answers
semantic_search(db, query_embedding, subject_id, user_id, top_k, vector_ok) ==
  IF query_embedding = NoEmbedding THEN [ret |-> <<>>, err |-> "none"]
  ELSE IF ~vector_ok THEN [ret |-> <<>>, err |-> "DatabaseError"]
  ELSE
    LET Doc(c) == CHOOSE i \in 1..Len(db.documents) :
                    db.documents[i].id = c.documentId
        InScope(c) == /\ db.documents[Doc(c)].subjectId = subject_id
                      /\ db.documents[Doc(c)].userId = user_id
                      /\ db.documents[Doc(c)].status = "completed"
                      /\ ChunkEmbeddings[c.id] # NoEmbedding
        ordered == ByDistance({c \in db.chunks : InScope(c)}, query_embedding)
        rows == Slice(ordered, top_k)
        Near(c) == Similarity(query_embedding, ChunkEmbeddings[c.id])
                     >= min_similarity
        kept == SelectSeq(rows, Near)
    IN  [ret |-> [i \in 1..Len(kept) |->
                    [id |-> kept[i].id,
                     content |-> kept[i].content,
                     chunk_index |-> kept[i].chunkIndex,
                     page_number |-> kept[i].pageNumber,
                     document_id |-> kept[i].documentId,
                     filename |-> db.documents[Doc(kept[i])].filename,
                     original_name |-> db.documents[Doc(kept[i])].originalName,
                     similarity |->
                       Similarity(query_embedding, ChunkEmbeddings[kept[i].id])]],
         err |-> "none"]

\* ------------------------------------------------ RAGEngine, hybrid search
\* semantic_search_api: the results, the cache after the call, the exception
semantic_search_api(client, cache, db, query, subject_id, user_id, top_k, api_ok, vector_ok) ==
  IF ~is_configured(client)
  THEN [ret |-> <<>>, cache |-> cache, err |-> "none"]
  ELSE
    LET e == embed_text(client, cache, query, api_ok)
        results == semantic_search(db, e.embedding, subject_id, user_id,
                                   top_k, vector_ok)
    IN  IF e.embedding = NoEmbedding
        THEN [ret |-> <<>>, cache |-> e.cache, err |-> "none"]
        ELSE IF results.err # "none"
        THEN [ret |-> <<>>, cache |-> e.cache, err |-> results.err]
        ELSE [ret |-> [i \in 1..Len(results.ret) |->
                         [k \in DOMAIN results.ret[i] \cup {"search_type", "score"}
                            |-> IF k = "search_type" THEN "semantic"
                                ELSE IF k = "score"
                                THEN Get(results.ret[i], "similarity", 0)
                                ELSE results.ret[i][k]]],
              cache |-> e.cache, err |-> "none"]

\* settings.rrf_k
rrf_k == 60

\* a / b + c / d
FractionAdd(x, y) == Div(x.num * y.den + y.num * x.den, x.den * y.den)

\* no rank (None)
NoRank == 0

ResultIds(results) == {results[i].id : i \in 1..Len(results)}

\* dict update: the entry of the candidate with this id replaced (in place)
\* or appended
CandidateSet(candidates, c) ==
  IF c.id \in ResultIds(candidates)
  THEN [i \in 1..Len(candidates) |->
          IF candidates[i].id = c.id THEN c ELSE candidates[i]]
  ELSE Append(candidates, c)

CandidateGet(candidates, doc_id) ==
  candidates[CHOOSE i \in 1..Len(candidates) : candidates[i].id = doc_id]

\* {**result, key: value, ...}
With(result, extra) ==
  [k \in DOMAIN result \cup DOMAIN extra |->
     IF k \in DOMAIN extra THEN extra[k] ELSE result[k]]

\* "Score BM25 results" loop, from rank onwards
RECURSIVE FuseBm25(_, _, _)
FuseBm25(candidates, bm25_results, rank) ==
  IF rank > Len(bm25_results) THEN candidates
  ELSE LET result == bm25_results[rank]
           rrf_score == Div(1, rrf_k + rank)
       IN  CHOOSE fused \in
             {FuseBm25(updated, bm25_results, rank + 1) :
                updated \in {CandidateSet(candidates,
                               With(result, [rrf_score |-> rrf_score,
                                             bm25_rank |-> rank,
                                             semantic_rank |-> NoRank]))}} :
             TRUE

\* a semantic result that is already a candidate is scored by replacing the
\* candidate's score (no sum)
SemanticCandidateReplacesScore(candidates, result, rank) ==
  LET rrf_score == Div(1, rrf_k + rank)
  IN  IF result.id \in ResultIds(candidates)
      THEN With(CandidateGet(candidates, result.id),
                [rrf_score |-> rrf_score, semantic_rank |-> rank,
                 search_type |-> "hybrid"])
      ELSE With(result, [rrf_score |-> rrf_score, bm25_rank |-> NoRank,
                         semantic_rank |-> rank, search_type |-> "semantic"])

\* body of the "Score semantic results" loop: the candidate entry written
SemanticCandidate(candidates, result, rank) ==
  LET doc_id == result.id
      rrf_score == Div(1, rrf_k + rank)
  IN  IF doc_id \in ResultIds(candidates)
      THEN LET c == CandidateGet(candidates, doc_id)
           IN  With(c, [rrf_score |-> FractionAdd(c.rrf_score, rrf_score),
                        semantic_rank |-> rank,
                        search_type |-> "hybrid"])
      ELSE With(result, [rrf_score |-> rrf_score,
                         bm25_rank |-> NoRank,
                         semantic_rank |-> rank,
                         search_type |-> "semantic"])

\* "Score semantic results" loop, from rank onwards
RECURSIVE FuseSemantic(_, _, _)
FuseSemantic(candidates, semantic_results, rank) ==
  IF rank > Len(semantic_results) THEN candidates
  ELSE CHOOSE fused \in
         {FuseSemantic(updated, semantic_results, rank + 1) :
            updated \in {CandidateSet(candidates,
                           SemanticCandidate(candidates,
                                             semantic_results[rank], rank))}} :
         TRUE

FractionLess(a, b) == a.num * b.den < b.num * a.den

\* the insertion step of an ascending sort
InsertByRrfAscending(sorted, x) ==
  LET before == {i \in 1..Len(sorted) :
                   ~FractionLess(x.rrf_score, sorted[i].rrf_score)}
      n == Cardinality(before)
  IN  SubSeq(sorted, 1, n) \o <<x>> \o SubSeq(sorted, n + 1, Len(sorted))

\* sorted(..., key=rrf_score, reverse=True): stable
InsertByRrf(sorted, x) ==
  LET before == {i \in 1..Len(sorted) :
                   ~FractionLess(sorted[i].rrf_score, x.rrf_score)}
      n == Cardinality(before)
  IN  SubSeq(sorted, 1, n) \o <<x>> \o SubSeq(sorted, n + 1, Len(sorted))

RECURSIVE SortByRrf(_)
SortByRrf(items) ==
  IF items = <<>> THEN <<>>
  ELSE CHOOSE sorted \in
         {InsertByRrf(front, items[Len(items)]) :
            front \in {SortByRrf(SubSeq(items, 1, Len(items) - 1))}} : TRUE

_reciprocal_rank_fusion(bm25_results, semantic_results) ==
  CHOOSE fused \in
    {[i \in 1..Len(sorted_results) |->
        With(sorted_results[i], [score |-> sorted_results[i].rrf_score])] :
       sorted_results \in
         {SortByRrf(candidates) :
            candidates \in
              {FuseSemantic(lexical, semantic_results, 1) :
                 lexical \in {FuseBm25(<<>>, bm25_results, 1)}}}} : TRUE

\* hybrid_search returning all the top_k * 3 lexical results on fallback
hybrid_search_untruncated(index, client, cache, db, query, search_query, subject_id, user_id, top_k, store_ok, api_ok, vector_ok) ==
  CHOOSE out \in
    {IF bm25_results.err # "none"
     THEN [index |-> bm25_results.index, cache |-> cache, ret |-> <<>>,
           err |-> bm25_results.err]
     ELSE IF semantic_results.err # "none"
     THEN [index |-> bm25_results.index, cache |-> semantic_results.cache,
           ret |-> <<>>, err |-> semantic_results.err]
     ELSE IF semantic_results.ret = <<>>
     THEN [index |-> bm25_results.index, cache |-> semantic_results.cache,
           ret |-> bm25_results.ret, err |-> "none"]
     ELSE [index |-> bm25_results.index, cache |-> semantic_results.cache,
           ret |-> Slice(_reciprocal_rank_fusion(bm25_results.ret,
                                                 semantic_results.ret),
                         top_k),
           err |-> "none"] :
       bm25_results \in
         {bm25_search(index, db, search_query, subject_id, user_id,
                      top_k * 3, store_ok)},
       semantic_results \in
         {semantic_search_api(client, cache, db, query, subject_id, user_id,
                              top_k * 3, api_ok, vector_ok)}} : TRUE

\* hybrid_search, given the query the expander produced for the lexical part
hybrid_search(index, client, cache, db, query, search_query, subject_id, user_id, top_k, store_ok, api_ok, vector_ok) ==
  CHOOSE out \in
    {IF bm25_results.err # "none"
     THEN [index |-> bm25_results.index, cache |-> cache, ret |-> <<>>,
           err |-> bm25_results.err]
     ELSE IF semantic_results.err # "none"
     THEN [index |-> bm25_results.index, cache |-> semantic_results.cache,
           ret |-> <<>>, err |-> semantic_results.err]
     ELSE IF semantic_results.ret = <<>>
     THEN [index |-> bm25_results.index, cache |-> semantic_results.cache,
           ret |-> Slice(bm25_results.ret, top_k), err |-> "none"]
     ELSE [index |-> bm25_results.index, cache |-> semantic_results.cache,
           ret |-> Slice(_reciprocal_rank_fusion(bm25_results.ret,
                                                 semantic_results.ret),
                         top_k),
           err |-> "none"] :
       bm25_results \in
         {bm25_search(index, db, search_query, subject_id, user_id,
                      top_k * 3, store_ok)},
       semantic_results \in
         {semantic_search_api(client, cache, db, query, subject_id, user_id,
                              top_k * 3, api_ok, vector_ok)}} : TRUE

\* the "Format with source attribution" loop: one entry per result, holding
\* the parts of f"{content}\n[Source: {source}, Page {page}]" (page 0: the
\* page part is left out)
Attribute(results) ==
  [i \in 1..Len(results) |->
     LET result == results[i]
         source == Get(result, "original_name",
                       Get(result, "filename", "unknown"))
         page == Get(result, "page_number", 0)
     IN  [content |-> result.content, source |-> source, page |-> page]]

SearchTypes == {"bm25", "semantic", "hybrid"}

\* get_context_for_query: (context_texts, chunk_ids) and the state left
get_context_for_query(index, client, cache, db, query, search_query, subject_id, user_id, top_k, search_type, store_ok, api_ok, vector_ok) ==
  LET Searched ==
        IF search_type = "bm25"
        THEN {[index |-> r.index, cache |-> cache, ret |-> r.ret,
               err |-> r.err] :
                r \in {bm25_search(index, db, search_query, subject_id,
                                   user_id, top_k, store_ok)}}
        ELSE IF search_type = "semantic"
        THEN {[index |-> index, cache |-> r.cache, ret |-> r.ret,
               err |-> r.err] :
                r \in {semantic_search_api(client, cache, db, query,
                                           subject_id, user_id, top_k,
                                           api_ok, vector_ok)}}
        ELSE {hybrid_search(index, client, cache, db, query, search_query,
                            subject_id, user_id, top_k, store_ok, api_ok,
                            vector_ok)}
  IN  CHOOSE out \in
        {[index |-> results.index, cache |-> results.cache,
          context_texts |-> IF results.err = "none"
                            THEN Attribute(results.ret) ELSE <<>>,
          chunk_ids |-> IF results.err = "none"
                        THEN [i \in 1..Len(results.ret) |->
                                results.ret[i].id]
                        ELSE <<>>,
          err |-> results.err] : results \in Searched} : TRUE

\* --------------------------------------------------------- ChunkingEngine
\* A text is a sequence of characters; offsets are Python's (0-based).
Whitespace == {" ", "\n"}
SentenceEnd == {".", "!", "?"}

SetMin(S) == CHOOSE x \in S : \A y \in S : x <= y
SetMax(S) == CHOOSE x \in S : \A y \in S : x >= y

\* s.strip()
StripText(s) ==
  LET solid == {i \in 1..Len(s) : s[i] \notin Whitespace}
  IN  IF solid = {} THEN <<>> ELSE SubSeq(s, SetMin(solid), SetMax(solid))

\* s[a:b] for 0 <= a
SliceText(s, a, b) == SubSeq(s, a + 1, Min(b, Len(s)))

\* s.find(sub, start): lowest offset >= start where sub occurs, else -1
\* (a negative start counts from the end)
Find(s, sub, start) ==
  LET from == IF start < 0 THEN Max(0, Len(s) + start) ELSE start
      hits == {i \in from..(Len(s) - Len(sub)) :
                 SubSeq(s, i + 1, i + Len(sub)) = sub}
  IN  IF hits = {} THEN -1 ELSE SetMin(hits)

\* s.rfind(sub): highest offset where sub occurs, else -1
RFind(s, sub) ==
  LET hits == {i \in 0..(Len(s) - Len(sub)) :
                 SubSeq(s, i + 1, i + Len(sub)) = sub}
  IN  IF hits = {} THEN -1 ELSE SetMax(hits)

\* sep.join(parts)
RECURSIVE Join(_, _)
Join(parts, sep) ==
  IF parts = <<>> THEN <<>>
  ELSE IF Len(parts) = 1 THEN parts[1]
  ELSE parts[1] \o sep \o Join(Tail(parts), sep)

\* re.split(r"\n\s*\n", text): the leftmost newline that starts a blank-line
\* separator, the separator taken as long as possible
RECURSIVE SplitBlankLines(_)
SplitBlankLines(text) ==
  LET Ends(i) == {j \in (i + 1)..Len(text) :
                    /\ text[j] = "\n"
                    /\ \A k \in (i + 1)..(j - 1) : text[k] \in Whitespace}
      starts == {i \in 1..Len(text) : text[i] = "\n" /\ Ends(i) # {}}
  IN  IF starts = {} THEN <<text>>
      ELSE LET i == SetMin(starts)
               j == SetMax(Ends(i))
           IN  <<SubSeq(text, 1, i - 1)>>
                 \o SplitBlankLines(SubSeq(text, j + 1, Len(text)))

\* re.split(r'(?<=[.!?])\s+', text): each whitespace run that follows a
\* sentence-ending character
RECURSIVE SplitAfterSentenceEnd(_)
SplitAfterSentenceEnd(text) ==
  LET starts == {i \in 2..Len(text) :
                   text[i] \in Whitespace /\ text[i - 1] \in SentenceEnd}
  IN  IF starts = {} THEN <<text>>
      ELSE LET i == SetMin(starts)
               j == SetMax({j \in i..Len(text) :
                              \A k \in i..j : text[k] \in Whitespace})
           IN  <<SubSeq(text, 1, i - 1)>>
                 \o SplitAfterSentenceEnd(SubSeq(text, j + 1, Len(text)))

\* [p.strip() for p in pieces if p.strip()]
RECURSIVE StripAll(_)
StripAll(pieces) ==
  IF pieces = <<>> THEN <<>>
  ELSE (IF StripText(Head(pieces)) = <<>> THEN <<>>
        ELSE <<StripText(Head(pieces))>>) \o StripAll(Tail(pieces))

\* _split_sentences; the texts tried hold none of the protected
\* abbreviations, so the placeholder substitution changes nothing
_split_sentences(text) == StripAll(SplitAfterSentenceEnd(text))

\* ChunkingEngine(chunk_size, chunk_overlap, min_chunk_size, respect_sentences)
ChunkingEngine(chunk_size, chunk_overlap, min_chunk_size) ==
  [chunk_size |-> chunk_size, chunk_overlap |-> chunk_overlap,
   min_chunk_size |-> min_chunk_size, respect_sentences |-> TRUE]

\* no page number (None)
NoPage == 0

\* a Chunk built with start_char and end_char exchanged
ChunkWithOffsetsSwapped(content, chunk_index, start_char, end_char) ==
  [content |-> content, chunk_index |-> chunk_index, page_number |-> NoPage,
   start_char |-> end_char, end_char |-> start_char]

\* Chunk(content, chunk_index, start_char, end_char)
Chunk(content, chunk_index, start_char, end_char) ==
  [content |-> content, chunk_index |-> chunk_index, page_number |-> NoPage,
   start_char |-> start_char, end_char |-> end_char]

\* "Handle overlap": going back from part i, the parts kept and their length
RECURSIVE OverlapLoop(_, _, _, _, _)
OverlapLoop(self, parts, i, overlap_parts, overlap_len) ==
  IF i < 1 \/ overlap_len + Len(parts[i]) > self.chunk_overlap
  THEN [parts |-> overlap_parts, len |-> overlap_len]
  ELSE OverlapLoop(self, parts, i - 1, <<parts[i]>> \o overlap_parts,
                   overlap_len + Len(parts[i]) + 1)

\* body of the loop of _chunk_by_sentences
SentenceStep(self, text, acc, sentence) ==
  LET full == /\ acc.current_length + Len(sentence) > self.chunk_size
              /\ acc.parts # <<>>
      chunk_text == Join(acc.parts, <<" ">>)
      found == Find(text, acc.parts[1], acc.char_offset)
      start == IF found = -1 THEN acc.char_offset ELSE found
      overlap == OverlapLoop(self, acc.parts, Len(acc.parts), <<>>, 0)
      flushed ==
        IF full
        THEN [chunks |-> Append(acc.chunks,
                                Chunk(chunk_text, Len(acc.chunks), start,
                                      start + Len(chunk_text))),
              parts |-> overlap.parts,
              current_length |-> overlap.len,
              char_offset |-> start + Len(chunk_text) - overlap.len]
        ELSE acc
  IN  [flushed EXCEPT !.parts = Append(@, sentence),
                      !.current_length = @ + Len(sentence) + 1]

RECURSIVE SentenceLoop(_, _, _, _)
SentenceLoop(self, text, acc, sentences) ==
  IF sentences = <<>> THEN acc
  ELSE SentenceLoop(self, text, SentenceStep(self, text, acc, Head(sentences)),
                    Tail(sentences))

NewBuffer ==
  [chunks |-> <<>>, parts |-> <<>>, current_length |-> 0, char_offset |-> 0]

_chunk_by_sentences(self, text) ==
  LET acc == SentenceLoop(self, text, NewBuffer, _split_sentences(text))
      chunk_text == Join(acc.parts, <<" ">>)
      found == Find(text, acc.parts[1], acc.char_offset)
      start == IF found = -1 THEN Max(0, Len(text) - Len(chunk_text))
               ELSE found
  IN  IF acc.parts = <<>> THEN acc.chunks
      ELSE Append(acc.chunks, Chunk(chunk_text, Len(acc.chunks), start,
                                    start + Len(chunk_text)))

\* one pass of the while loop of _chunk_fixed: the window cut at offset start
\* as chunk number `index`, and the offset where the window ends
FixedWindow(self, text, start, index) ==
  LET window_end == start + self.chunk_size
      window == SliceText(text, start, window_end)
      last_period == Max(Max(RFind(window, <<".", " ">>),
                             RFind(window, <<"!", " ">>)),
                         Max(RFind(window, <<"?", " ">>),
                             RFind(window, <<".", "\n">>)))
      shorten == /\ window_end < Len(text)
                 /\ self.respect_sentences
                 /\ 2 * last_period > self.chunk_size
      end == IF shorten THEN start + last_period + 1 ELSE window_end
      chunk_text == SliceText(text, start, end)
  IN  [end |-> end,
       chunk |-> Chunk(StripText(chunk_text), index, start, end)]

\* the while loop of _chunk_fixed, from offset start
RECURSIVE FixedLoop(_, _, _, _)
FixedLoop(self, text, start, chunks) ==
  IF start >= Len(text) THEN chunks
  ELSE
    CHOOSE out \in
      {FixedLoop(self, text, w.end - self.chunk_overlap,
                 Append(chunks, w.chunk)) :
         w \in {FixedWindow(self, text, start, Len(chunks))}} : TRUE

_chunk_fixed(self, text) == FixedLoop(self, text, 0, <<>>)

\* the buffer of _chunk_by_paragraphs emitted as one chunk
FlushParagraphs(text, acc) ==
  LET chunk_text == Join(acc.parts, <<"\n", "\n">>)
      found == Find(text, acc.parts[1], acc.char_offset)
      start == IF found = -1 THEN acc.char_offset ELSE found
  IN  [chunks |-> Append(acc.chunks, Chunk(chunk_text, Len(acc.chunks), start,
                                           start + Len(chunk_text))),
       parts |-> <<>>,
       current_length |-> 0,
       char_offset |-> start + Len(chunk_text)]

\* "for sc in sub_chunks": each moved by char_offset, numbered and appended
AppendShifted(chunks, sub_chunks, char_offset) ==
  chunks \o [i \in 1..Len(sub_chunks) |->
               [sub_chunks[i] EXCEPT !.start_char = @ + char_offset,
                                     !.end_char = @ + char_offset,
                                     !.chunk_index = Len(chunks) + i - 1]]

\* the loop body flushing the buffer only once it is already over chunk_size
ParagraphStepFlushesWhenFull(self, text, acc, para) ==
  IF Len(para) > self.chunk_size
  THEN LET flushed == IF acc.parts # <<>> THEN FlushParagraphs(text, acc)
                      ELSE acc
       IN  [flushed EXCEPT
              !.chunks = AppendShifted(@, _chunk_by_sentences(self, para),
                                       flushed.char_offset),
              !.char_offset = @ + Len(para)]
  ELSE LET flushed ==
             IF acc.current_length > self.chunk_size /\ acc.parts # <<>>
             THEN FlushParagraphs(text, acc)
             ELSE acc
       IN  [flushed EXCEPT !.parts = Append(@, para),
                           !.current_length = @ + Len(para) + 2]

\* body of the loop of _chunk_by_paragraphs
ParagraphStep(self, text, acc, para) ==
  IF Len(para) > self.chunk_size
  THEN LET flushed == IF acc.parts # <<>> THEN FlushParagraphs(text, acc)
                      ELSE acc
       IN  [flushed EXCEPT
              !.chunks = AppendShifted(@, _chunk_by_sentences(self, para),
                                       flushed.char_offset),
              !.char_offset = @ + Len(para)]
  ELSE LET flushed ==
             IF acc.current_length + Len(para) > self.chunk_size
                /\ acc.parts # <<>>
             THEN FlushParagraphs(text, acc)
             ELSE acc
       IN  [flushed EXCEPT !.parts = Append(@, para),
                           !.current_length = @ + Len(para) + 2]

RECURSIVE ParagraphLoop(_, _, _, _)
ParagraphLoop(self, text, acc, paragraphs) ==
  IF paragraphs = <<>> THEN acc
  ELSE ParagraphLoop(self, text,
                     ParagraphStep(self, text, acc, Head(paragraphs)),
                     Tail(paragraphs))

_chunk_by_paragraphs(self, text) ==
  LET acc == ParagraphLoop(self, text, NewBuffer,
                           StripAll(SplitBlankLines(text)))
  IN  IF acc.parts = <<>> THEN acc.chunks
      ELSE FlushParagraphs(text, acc).chunks

\* int(a / b) for b > 0 (rounds toward zero)
TruncDiv(a, b) == IF a >= 0 THEN a \div b ELSE -((-a) \div b)

\* _assign_page_numbers for page_count > 1:
\* int(start_char / (len(full_text) / page_count)) + 1, at most page_count
_assign_page_numbers(chunks, full_text, page_count) ==
  [i \in 1..Len(chunks) |->
     [chunks[i] EXCEPT !.page_number =
        Min(TruncDiv(chunks[i].start_char * page_count, Len(full_text)) + 1,
            page_count)]]

\* "Re-index after filtering"
Reindex(chunks) ==
  [i \in 1..Len(chunks) |-> [chunks[i] EXCEPT !.chunk_index = i - 1]]

Strategies == {"paragraph", "sentence", "fixed"}

\* chunk_text keeping the chunk_index values the strategy assigned
chunk_text_not_renumbered(self, text, page_count, strategy) ==
  IF StripText(text) = <<>> THEN <<>>
  ELSE
    LET stripped == StripText(text)
        chunks == IF strategy = "paragraph"
                  THEN _chunk_by_paragraphs(self, stripped)
                  ELSE IF strategy = "fixed" THEN _chunk_fixed(self, stripped)
                  ELSE _chunk_by_sentences(self, stripped)
        paged == IF page_count > 1
                 THEN _assign_page_numbers(chunks, stripped, page_count)
                 ELSE chunks
        LongEnough(c) == Len(StripText(c.content)) >= self.min_chunk_size
    IN  SelectSeq(paged, LongEnough)

chunk_text(self, text, page_count, strategy) ==
  IF StripText(text) = <<>> THEN <<>>
  ELSE
    LET stripped == StripText(text)
        chunks == IF strategy = "paragraph"
                  THEN _chunk_by_paragraphs(self, stripped)
                  ELSE IF strategy = "fixed" THEN _chunk_fixed(self, stripped)
                  ELSE _chunk_by_sentences(self, stripped)
        paged == IF page_count > 1
                 THEN _assign_page_numbers(chunks, stripped, page_count)
                 ELSE chunks
        LongEnough(c) == Len(StripText(c.content)) >= self.min_chunk_size
    IN  Reindex(SelectSeq(paged, LongEnough))

\* ------------------------------------------------- the ingestion pipeline
\* TextExtractor.SUPPORTED_TYPES
SUPPORTED_TYPES ==
  {"application/pdf",
   "application/vnd.openxmlformats-officedocument.wordprocessingml.document",
   "text/plain", "text/markdown"}

\* "error": None
NoError == ""

\* TextExtractor.extract_from_base64: a content is given by whether it can
\* be decoded and read (an exception in the decoder or in the format's
\* extractor becomes the error) and by the sanitized text read from it
extract_from_base64(content, mime_type) ==
  IF mime_type \notin SUPPORTED_TYPES
  THEN [text |-> <<>>, pages |-> 0, error |-> "Unsupported file type"]
  ELSE IF ~content.readable
  THEN [text |-> <<>>, pages |-> 0, error |-> "extraction error"]
  ELSE [text |-> content.text,
        pages |-> Max(1, Len(content.text) \div 3000),
        error |-> NoError]

\* EmbeddingClient.embed_batch: one entry per text; api_ok says whether the
\* request of a batch succeeds (both except clauses leave the batch at None)
embed_batch(self, texts, api_ok) ==
  IF ~is_configured(self) THEN [i \in 1..Len(texts) |-> NoEmbedding]
  ELSE [i \in 1..Len(texts) |->
          IF api_ok THEN EmbeddingOf(texts[i]) ELSE NoEmbedding]

\* database.update_document_status: UPDATE documents SET status WHERE id
update_document_status(db, document_id, status) ==
  [db EXCEPT !.documents =
     [i \in 1..Len(@) |->
        IF @[i].id = document_id THEN [@[i] EXCEPT !.status = status]
        ELSE @[i]]]

\* database.store_chunks: one row inserted per chunk (gen_random_uuid() is
\* the pair of the document and the position); the embedding column is not
\* part of the rows of the model, term_frequency is not stored
store_chunks(db, document_id, chunks) ==
  [db EXCEPT !.chunks =
     @ \cup {[id |-> <<document_id, i>>,
              documentId |-> document_id,
              chunkIndex |-> chunks[i].chunk_index,
              pageNumber |-> chunks[i].page_number,
              content |-> chunks[i].content] : i \in 1..Len(chunks)}]

\* what main.py awaits or iterates, and what the callee is: the database
\* functions are plain functions (def) returning None and an int,
\* RAGEngine.generate_embeddings is a coroutine function (async def) that
\* main.py calls without await
IsCoroutineFunction ==
  [update_document_status |-> FALSE, store_chunks |-> FALSE,
   generate_embeddings |-> TRUE]

\* await f(...): the call is made; awaiting the value of a plain function
\* raises TypeError
Await(f) == IF IsCoroutineFunction[f] THEN "none" ELSE "TypeError"

\* all_embeddings.extend(f(...)): a coroutine object is not iterable
Extend(f) == IF IsCoroutineFunction[f] THEN "TypeError" ELSE "none"

\* main.chunking_engine: settings.chunk_size, settings.chunk_overlap and
\* the default min_chunk_size
PipelineEngine == ChunkingEngine(500, 50, 50)

\* steps 1 to 6 of the try block, entered with the status already written:
\* the store when the block ends, the exception it ends with
PipelineSteps(processing, document_id, content, mime_type) ==
  CHOOSE tried \in
    {IF extraction.error # NoError
     THEN [db |-> processing, err |-> "Exception"]
     ELSE IF StripText(extraction.text) = <<>>
     THEN [db |-> processing, err |-> "Exception"]
     ELSE CHOOSE chunked \in
            {IF chunks = <<>>
             THEN [db |-> processing, err |-> "Exception"]
             ELSE IF Extend("generate_embeddings") # "none"
             THEN [db |-> processing, err |-> Extend("generate_embeddings")]
             ELSE IF Await("store_chunks") # "none"
             THEN [db |-> store_chunks(processing, document_id, chunks),
                   err |-> Await("store_chunks")]
             ELSE [db |-> update_document_status(
                            store_chunks(processing, document_id, chunks),
                            document_id, "completed"),
                   err |-> Await("update_document_status")] :
               chunks \in {chunk_text(PipelineEngine, extraction.text,
                                      extraction.pages, "sentence")}} : TRUE :
       extraction \in {extract_from_base64(content, mime_type)}} : TRUE

\* _process_document_pipeline: the store it leaves and the exception that
\* leaves it ("none": it returns)
_process_document_pipeline(db, document_id, content, mime_type) ==
  CHOOSE out \in
    {IF tried.err = "none" THEN tried
     ELSE \* except Exception: await update_document_status(.., "failed")
          [db |-> update_document_status(tried.db, document_id, "failed"),
           err |-> Await("update_document_status")] :
       tried \in
         {IF Await("update_document_status") # "none"
          THEN [db |-> processing, err |-> Await("update_document_status")]
          ELSE PipelineSteps(processing, document_id, content, mime_type) :
            processing \in {update_document_status(db, document_id,
                                                   "processing")}}} : TRUE

\* ------------------------------------------------------------------ state
VARIABLES
  bm25_index,   \* RAGEngine.bm25_index, the BM25Index object
  store,        \* the documents and document_chunks tables
  last,         \* the call made last: what it was given, found and returned
  embedding_client,   \* RAGEngine.embedding_client
  _embedding_cache,   \* embeddings._embedding_cache
  chunking,     \* a chunk_text call: its engine, its arguments, its result
  threads,      \* two threads inside BM25Index methods: their positions, locals
  rebuild,      \* a thread inside rebuild_bm25_index, and what a search saw
  pipeline      \* the _process_document_pipeline call made last

vars == <<bm25_index, store, last, embedding_client, _embedding_cache,
          chunking, threads, rebuild, pipeline>>

\* every word of the query is a stop word (so is the blank query)
NoTokens(query) == \A i \in 1..Len(query) : Lower(query[i]) \in STOP_WORDS

\* op         the method called
\* present    add/remove: doc_id was stored (in doc_texts) when the call began
\* emptied    remove: the call deleted at least one posting list
\* was_empty  search, bm25_search, rebuild: size was 0 when the call began
\* no_tokens  search, bm25_search: the query searched has stop words only
\* store_ok   bm25_search: the database was reachable
\* ret        the value returned (a ranked list; add_documents: the count)
\* err        the exception raised, "none" if the call returned
\* api_ok     semantic, hybrid: the embeddings API call would succeed
\* vector_ok  semantic, hybrid: the pgvector query would succeed
\* semantic_empty  hybrid: the semantic sub-search returned no result
\* subject_id, user_id  bm25_search: the scope searched
NoCall == [op |-> "init", present |-> FALSE, emptied |-> FALSE,
           subject_id |-> "", user_id |-> "",
           was_empty |-> FALSE, no_tokens |-> FALSE, store_ok |-> TRUE,
           api_ok |-> TRUE, vector_ok |-> TRUE, semantic_empty |-> FALSE,
           ret |-> <<>>, err |-> "none"]

EmptyStore == StoreOf({})

\* ChunkingEngine() with the defaults, and a small engine
DefaultEngine == ChunkingEngine(500, 50, 50)
SmallEngine == ChunkingEngine(5, 2, 2)

\* a thread that is in no add_document call
IdleWriter ==
  [pc |-> "idle", doc_id |-> "", tokens |-> <<>>, terms |-> <<>>,
   before |-> NewIndex]

\* a thread that is in no search call
\* query, limit   the arguments of the call
\* query_tokens   the terms of the outer loop not yet visited
\* N, df          doc_count and doc_freqs[term] as read for the current term
\* term, size, pos  the posting dict being iterated, its size when the
\*                iteration began, the next item
\* snapshots      the index states between whole mutations since the call began
IdleReader ==
  [pc |-> "idle", query |-> <<>>, limit |-> 0, query_tokens |-> <<>>,
   term |-> "", N |-> 0, df |-> 0, size |-> 0, pos |-> 0, scores |-> <<>>,
   snapshots |-> {}, ret |-> <<>>, err |-> "none"]

NoThreads == [writer |-> IdleWriter, reader |-> IdleReader]

\* no search made next to a rebuild
\* during   the search ran while a rebuild_bm25_index call was in progress
NoRead ==
  [during |-> FALSE, query |-> <<>>, limit |-> 0, ret |-> <<>>,
   err |-> "none"]

\* a thread that is in no rebuild_bm25_index call
\* subject_id, user_id  the arguments of the call
\* before   the index when the call began
\* chunks   the chunks index_chunks has not added yet
\* read     the search another thread made last
NoRebuild ==
  [pc |-> "idle", subject_id |-> "", user_id |-> "", before |-> NewIndex,
   chunks |-> <<>>, read |-> NoRead]

\* no _process_document_pipeline call made yet
\* document_id, content, mime_type  the arguments of the call
\* before   the store when the call began
\* err      the exception that left the call, "none" if it returned
\* index    the lexical index when the call began
NoPipeline ==
  [done |-> FALSE, document_id |-> "", content |-> [readable |-> FALSE,
   text |-> <<>>], mime_type |-> "", before |-> EmptyStore,
   index |-> NewIndex, err |-> "none"]

\* no chunk_text call in progress
NoChunking ==
  [engine |-> DefaultEngine, text |-> <<>>, page_count |-> 1,
   strategy |-> "sentence", chunks |-> <<>>, done |-> FALSE]

Init ==
  /\ bm25_index = NewIndex
  /\ store = EmptyStore
  /\ last = NoCall
  /\ embedding_client = NewEmbeddingClient("")
  /\ _embedding_cache = <<>>
  /\ chunking = NoChunking
  /\ threads = NoThreads
  /\ rebuild = NoRebuild
  /\ pipeline = NoPipeline

AddDocument ==
  \E doc_id \in IdInputs, text \in Texts, metadata \in Metas :
    /\ bm25_index.doc_count < MaxDocCount
    /\ bm25_index' = add_document(bm25_index, doc_id, text, metadata)
    /\ last' = [NoCall EXCEPT !.op = "add_document",
                  !.present = doc_id \in DOMAIN bm25_index.doc_texts]
    /\ UNCHANGED <<store, embedding_client, _embedding_cache, chunking, threads,
                rebuild, pipeline>>

AddDocuments ==
  \E documents \in Batches :
    LET r == add_documents(bm25_index, documents)
    IN  /\ bm25_index.doc_count + Len(documents) <= MaxDocCount
        /\ bm25_index' = r.index
        /\ last' = [NoCall EXCEPT !.op = "add_documents", !.ret = <<r.count>>]
        /\ UNCHANGED <<store, embedding_client, _embedding_cache, chunking, threads,
                rebuild, pipeline>>

RemoveDocument ==
  \E doc_id \in IdInputs :
    /\ bm25_index' = remove_document(bm25_index, doc_id)
    /\ last' = [NoCall EXCEPT !.op = "remove_document",
                  !.present = doc_id \in DOMAIN bm25_index.doc_texts,
                  !.emptied = DOMAIN bm25_index'.inverted_index
                              # DOMAIN bm25_index.inverted_index]
    /\ UNCHANGED <<store, embedding_client, _embedding_cache, chunking, threads,
                rebuild, pipeline>>

Clear ==
  /\ bm25_index' = clear(bm25_index)
  /\ last' = [NoCall EXCEPT !.op = "clear"]
  /\ UNCHANGED <<store, embedding_client, _embedding_cache, chunking, threads,
                rebuild, pipeline>>

Search ==
  \E query \in Queries, limit \in Limits :
    LET r == search(bm25_index, query, limit)
    IN  /\ last' = [NoCall EXCEPT !.op = "search",
                      !.was_empty = size(bm25_index) = 0,
                      !.no_tokens = NoTokens(query),
                      !.ret = r.ret, !.err = r.err]
        /\ UNCHANGED <<bm25_index, store, embedding_client, _embedding_cache, chunking, threads,
                rebuild, pipeline>>

Next ==
  \/ AddDocument
  \/ AddDocuments
  \/ RemoveDocument
  \/ Clear
  \/ Search

Spec == Init /\ [][Next]_vars

\* ------------------------------------------------- the engine on a store
InitEngine ==
  /\ bm25_index = NewIndex
  /\ store \in Stores
  /\ last = NoCall
  /\ embedding_client = NewEmbeddingClient("")
  /\ _embedding_cache = <<>>
  /\ chunking = NoChunking
  /\ threads = NoThreads
  /\ rebuild = NoRebuild
  /\ pipeline = NoPipeline

IndexChunks ==
  \E subject_id \in Subjects, user_id \in Users :
    LET chunks == get_all_chunks_for_subject(store, subject_id, user_id)
        r == index_chunks(bm25_index, chunks)
    IN  /\ bm25_index.doc_count + Len(chunks) <= MaxDocCount
        /\ bm25_index' = r.index
        /\ last' = [NoCall EXCEPT !.op = "index_chunks", !.ret = <<r.count>>]
        /\ UNCHANGED <<store, embedding_client, _embedding_cache, chunking, threads,
                rebuild, pipeline>>

RemoveDocumentFromIndex ==
  \E chunk_ids \in SeqsUpTo(ChunkIds, MaxBatch) :
    /\ bm25_index' = remove_document_from_index(bm25_index, chunk_ids)
    /\ last' = [NoCall EXCEPT !.op = "remove_document_from_index"]
    /\ UNCHANGED <<store, embedding_client, _embedding_cache, chunking, threads,
                rebuild, pipeline>>

RebuildBm25Index ==
  \E subject_id \in Subjects, user_id \in Users, store_ok \in BOOLEAN :
    LET r == rebuild_bm25_index(bm25_index, store, subject_id, user_id, store_ok)
    IN  /\ bm25_index' = r.index
        /\ last' = [NoCall EXCEPT !.op = "rebuild_bm25_index",
                      !.was_empty = size(bm25_index) = 0,
                      !.store_ok = store_ok,
                      !.ret = IF r.err = "none" THEN <<r.count>> ELSE <<>>,
                      !.err = r.err]
        /\ UNCHANGED <<store, embedding_client, _embedding_cache, chunking, threads,
                rebuild, pipeline>>

Bm25Search ==
  \E query \in EngineQueries, subject_id \in Subjects, user_id \in Users,
     top_k \in Limits, expand_query \in BOOLEAN, store_ok \in BOOLEAN :
    \E search_query \in IF expand_query THEN Expansions(query, subject_id)
                        ELSE {query} :
      LET r == bm25_search(bm25_index, store, search_query, subject_id,
                           user_id, top_k, store_ok)
      IN  /\ bm25_index' = r.index
          /\ last' = [NoCall EXCEPT !.op = "bm25_search",
                        !.was_empty = size(bm25_index) = 0,
                        !.no_tokens = NoTokens(search_query),
                        !.store_ok = store_ok,
                        !.subject_id = subject_id, !.user_id = user_id,
                        !.ret = r.ret, !.err = r.err]
          /\ UNCHANGED <<store, embedding_client, _embedding_cache, chunking, threads,
                rebuild, pipeline>>

NextEngine ==
  \/ IndexChunks
  \/ RemoveDocumentFromIndex
  \/ RebuildBm25Index
  \/ Bm25Search
  \/ Search

SpecEngine == InitEngine /\ [][NextEngine]_vars

\* the engine reached through bm25_search only: no ingestion, no removal and
\* no explicit rebuild between the searches
NextSearches == Bm25Search

SpecSearches == InitEngine /\ [][NextSearches]_vars

\* ------------------------------------- the engine with semantic search
\* the queries given to the semantic and hybrid searches
HybridQueries == {<<"subnet">>, <<"the">>}

\* the outcomes of the calls a search would make: the store read of the lazy
\* rebuild, the embeddings API call, the pgvector query (TRUE: it succeeds);
\* a call that is not made has no outcome to choose
\* the stores the hybrid searches start from: one document, and all of them
HybridStores == {StoreOf({"d1"}), StoreOf({"d1", "d2", "d3"})}

StoreOutcomes(index) == IF size(index) = 0 THEN BOOLEAN ELSE {TRUE}

ApiOutcomes(client, cache, query) ==
  IF is_configured(client) /\ query \notin CacheKeys(cache) THEN BOOLEAN
  ELSE {TRUE}

VectorOutcomes(client, cache, query, api_ok) ==
  IF embed_text(client, cache, query, api_ok).embedding # NoEmbedding
  THEN BOOLEAN ELSE {TRUE}

InitHybrid ==
  /\ bm25_index = NewIndex
  /\ store \in HybridStores
  /\ last = NoCall
  /\ embedding_client \in {NewEmbeddingClient(k) : k \in ApiKeys}
  /\ _embedding_cache = <<>>
  /\ chunking = NoChunking
  /\ threads = NoThreads
  /\ rebuild = NoRebuild
  /\ pipeline = NoPipeline

SemanticSearchApi ==
  \E query \in HybridQueries, subject_id \in Subjects, user_id \in Users,
     top_k \in Limits :
   \E api_ok \in ApiOutcomes(embedding_client, _embedding_cache, query) :
   \E vector_ok \in VectorOutcomes(embedding_client, _embedding_cache, query,
                                   api_ok) :
    \E r \in {semantic_search_api(embedding_client, _embedding_cache, store,
                                  query, subject_id, user_id, top_k,
                                  api_ok, vector_ok)} :
        /\ _embedding_cache' = r.cache
        /\ last' = [NoCall EXCEPT !.op = "semantic_search_api",
                      !.api_ok = api_ok, !.vector_ok = vector_ok,
                      !.ret = r.ret, !.err = r.err]
        /\ UNCHANGED <<bm25_index, store, embedding_client, chunking, threads,
                rebuild, pipeline>>

HybridSearch ==
  \E query \in HybridQueries, subject_id \in Subjects, user_id \in Users,
     top_k \in Limits, store_ok \in StoreOutcomes(bm25_index) :
   \E api_ok \in ApiOutcomes(embedding_client, _embedding_cache, query) :
    \E search_query \in Expansions(query, subject_id),
       vector_ok \in VectorOutcomes(embedding_client, _embedding_cache, query,
                                    api_ok) :
      \E r \in {hybrid_search(bm25_index, embedding_client, _embedding_cache,
                              store, query, search_query, subject_id, user_id,
                              top_k, store_ok, api_ok, vector_ok)},
         semantic_results \in
           {semantic_search_api(embedding_client, _embedding_cache, store,
                                query, subject_id, user_id, top_k * 3,
                                api_ok, vector_ok)} :
          /\ bm25_index' = r.index
          /\ _embedding_cache' = r.cache
          /\ last' = [NoCall EXCEPT !.op = "hybrid_search",
                        !.was_empty = size(bm25_index) = 0,
                        !.no_tokens = NoTokens(search_query),
                        !.store_ok = store_ok,
                        !.api_ok = api_ok, !.vector_ok = vector_ok,
                        !.semantic_empty = /\ semantic_results.err = "none"
                                           /\ semantic_results.ret = <<>>,
                        !.ret = r.ret, !.err = r.err]
          /\ UNCHANGED <<store, embedding_client, chunking, threads,
                rebuild, pipeline>>

GetContextForQuery ==
  \E query \in HybridQueries, subject_id \in Subjects, user_id \in Users,
     top_k \in {MaxLimit}, search_type \in SearchTypes,
     store_ok \in StoreOutcomes(bm25_index) :
   \E api_ok \in ApiOutcomes(embedding_client, _embedding_cache, query) :
    \E search_query \in Expansions(query, subject_id),
       vector_ok \in VectorOutcomes(embedding_client, _embedding_cache, query,
                                    api_ok) :
      \E r \in {get_context_for_query(bm25_index, embedding_client,
                                      _embedding_cache, store, query,
                                      search_query, subject_id, user_id,
                                      top_k, search_type, store_ok, api_ok,
                                      vector_ok)} :
          /\ bm25_index' = r.index
          /\ _embedding_cache' = r.cache
          /\ last' = [NoCall EXCEPT !.op = "get_context_for_query",
                        !.store_ok = store_ok,
                        !.api_ok = api_ok, !.vector_ok = vector_ok,
                        !.ret = IF r.err = "none"
                                THEN <<r.context_texts, r.chunk_ids>>
                                ELSE <<>>,
                        !.err = r.err]
          /\ UNCHANGED <<store, embedding_client, chunking, threads,
                rebuild, pipeline>>

NextHybrid ==
  \/ IndexChunks
  \/ SemanticSearchApi
  \/ HybridSearch
  \/ GetContextForQuery

SpecHybrid == InitHybrid /\ [][NextHybrid]_vars

\* ------------------------------------------------------- the chunker
\* the characters of the short texts: a letter, a sentence end, a line break
Characters == {"a", ".", "\n"}

ShortTexts == SeqsUpTo(Characters, MaxChars)

\* `count` paragraphs of `length` letters each, separated by blank lines
Paragraph(length) == [i \in 1..length |-> "a"]

RECURSIVE Paragraphs(_, _)
Paragraphs(length, count) ==
  IF count = 1 THEN Paragraph(length)
  ELSE Paragraph(length) \o <<"\n", "\n">> \o Paragraphs(length, count - 1)

LongTexts == {Paragraphs(300, 3), Paragraphs(200, 3)}

PageCounts == {1, 2}

InitChunker ==
  /\ bm25_index = NewIndex
  /\ store = EmptyStore
  /\ last = NoCall
  /\ embedding_client = NewEmbeddingClient("")
  /\ _embedding_cache = <<>>
  /\ threads = NoThreads
  /\ rebuild = NoRebuild
  /\ pipeline = NoPipeline
  /\ \E page_count \in PageCounts, strategy \in Strategies :
       \/ \E text \in ShortTexts :
            chunking = [engine |-> SmallEngine, text |-> text,
                        page_count |-> page_count, strategy |-> strategy,
                        chunks |-> <<>>, done |-> FALSE]
       \/ \E text \in LongTexts :
            chunking = [engine |-> DefaultEngine, text |-> text,
                        page_count |-> page_count, strategy |-> strategy,
                        chunks |-> <<>>, done |-> FALSE]

ChunkText ==
  /\ ~chunking.done
  /\ chunking' = [chunking EXCEPT
                    !.chunks = chunk_text(chunking.engine, chunking.text,
                                          chunking.page_count,
                                          chunking.strategy),
                    !.done = TRUE]
  /\ UNCHANGED <<bm25_index, store, last, embedding_client, _embedding_cache, threads,
                rebuild, pipeline>>

NextChunker == ChunkText

SpecChunker == InitChunker /\ [][NextChunker]_vars

\* ------------------------------------ the fixed windows, one at a time
\* _chunk_fixed with every configuration 0 <= chunk_overlap < chunk_size up to
\* MaxChunkSize, one action per pass of its while loop.  chunking.start is the
\* loop's `start`, chunking.previous the `start` of the pass before.
FixedEngines ==
  {ChunkingEngine(chunk_size, chunk_overlap, 1) :
     <<chunk_size, chunk_overlap>> \in
       {c \in (1..MaxChunkSize) \X (0..(MaxChunkSize - 1)) : c[2] < c[1]}}

\* chunk_text hands _chunk_fixed the stripped text, which is not empty
FixedTexts ==
  {text \in SeqsUpTo(Characters, MaxFixedChars) :
     text # <<>> /\ StripText(text) = text}

\* a loop that moves forward by one character at least ends within this
\* many passes
MaxWindows == MaxFixedChars + 1

InitFixed ==
  /\ bm25_index = NewIndex
  /\ store = EmptyStore
  /\ last = NoCall
  /\ embedding_client = NewEmbeddingClient("")
  /\ _embedding_cache = <<>>
  /\ threads = NoThreads
  /\ rebuild = NoRebuild
  /\ pipeline = NoPipeline
  /\ \E engine \in FixedEngines, text \in FixedTexts :
       chunking = [engine |-> engine, text |-> text, page_count |-> 1,
                   strategy |-> "fixed", chunks |-> <<>>, done |-> FALSE,
                   start |-> 0, previous |-> -1]

\* one pass: "while start < len(text)" ... "start = end - self.chunk_overlap"
FixedPass ==
  /\ ~chunking.done
  /\ chunking.start < Len(chunking.text)
  /\ Len(chunking.chunks) < MaxWindows
  /\ \E w \in {FixedWindow(chunking.engine, chunking.text, chunking.start,
                           Len(chunking.chunks))} :
       chunking' = [chunking EXCEPT
                      !.chunks = Append(@, w.chunk),
                      !.previous = chunking.start,
                      !.start = w.end - chunking.engine.chunk_overlap]
  /\ UNCHANGED <<bm25_index, store, last, embedding_client, _embedding_cache, threads,
                rebuild, pipeline>>

\* "return chunks", once the loop condition or the break ends the loop
FixedReturn ==
  /\ ~chunking.done
  /\ chunking.start >= Len(chunking.text)
  /\ chunking' = [chunking EXCEPT !.done = TRUE]
  /\ UNCHANGED <<bm25_index, store, last, embedding_client, _embedding_cache, threads,
                rebuild, pipeline>>

NextFixed == FixedPass \/ FixedReturn

SpecFixed == InitFixed /\ [][NextFixed]_vars

\* ------------------------------------- two threads on one BM25Index
\* One thread calls add_document and another calls search on the same index.
\* BM25Index takes no lock, so the threads interleave between statements.
\* the texts the adding thread indexes and the queries the other searches
ThreadTexts == {<<"subnet">>, <<"Mask", "subnet">>}
ThreadQueries == {<<"subnet">>, <<"mask">>}

InitThreads ==
  /\ bm25_index = NewIndex
  /\ store = EmptyStore
  /\ last = NoCall
  /\ embedding_client = NewEmbeddingClient("")
  /\ _embedding_cache = <<>>
  /\ chunking = NoChunking
  /\ threads = NoThreads
  /\ rebuild = NoRebuild
  /\ pipeline = NoPipeline

ReaderActive == threads.reader.pc \in {"terms", "postings"}

\* add_document, lines 78-86: the guards, then doc_texts, doc_metadata and
\* doc_lengths are written
WriterStore ==
  \E doc_id \in DocIds, text \in ThreadTexts, metadata \in Metas :
    LET tokens == _tokenize(text)
    IN  /\ threads.writer.pc = "idle"
        /\ bm25_index.doc_count < MaxDocCount
        /\ ~IsBlank(text)
        /\ bm25_index' = [bm25_index EXCEPT
                            !.doc_texts = SetKey(@, doc_id, text),
                            !.doc_metadata = SetKey(@, doc_id, OrEmpty(metadata)),
                            !.doc_lengths = SetKey(@, doc_id, Len(tokens))]
        /\ threads' = [threads EXCEPT
                         !.writer = [pc |-> "postings", doc_id |-> doc_id,
                                     tokens |-> tokens,
                                     terms |-> DistinctInOrder(tokens),
                                     before |-> bm25_index]]
        /\ UNCHANGED <<store, last, embedding_client, _embedding_cache,
                       chunking,
                rebuild, pipeline>>

\* add_document, lines 91-95: one iteration of the loop over term_counts
WriterPosting ==
  /\ threads.writer.pc = "postings"
  /\ threads.writer.terms # <<>>
  /\ bm25_index' = AddLoop(bm25_index, <<Head(threads.writer.terms)>>,
                           threads.writer.tokens, threads.writer.doc_id)
  /\ threads' = [threads EXCEPT !.writer.terms = Tail(@)]
  /\ UNCHANGED <<store, last, embedding_client, _embedding_cache, chunking,
                rebuild, pipeline>>

\* add_document, line 97: self.doc_count += 1
WriterCount ==
  /\ threads.writer.pc = "postings"
  /\ threads.writer.terms = <<>>
  /\ bm25_index' = [bm25_index EXCEPT !.doc_count = @ + 1]
  /\ threads' = [threads EXCEPT !.writer.pc = "avgdl"]
  /\ UNCHANGED <<store, last, embedding_client, _embedding_cache, chunking,
                rebuild, pipeline>>

\* add_document, lines 98-100: avgdl is recomputed and the call returns
WriterAvgdl ==
  /\ threads.writer.pc = "avgdl"
  /\ bm25_index' = [bm25_index EXCEPT
                      !.avgdl = Mean(bm25_index.doc_lengths,
                                     bm25_index.doc_count)]
  /\ threads' = [threads EXCEPT
                   !.writer = IdleWriter,
                   !.reader.snapshots =
                       IF ReaderActive THEN @ \cup {bm25_index'} ELSE @]
  /\ UNCHANGED <<store, last, embedding_client, _embedding_cache, chunking,
                rebuild, pipeline>>

\* search, lines 163-170: the early returns, the query is tokenized
ReaderBegin ==
  \E query \in ThreadQueries, limit \in {MaxLimit} :
    LET committed == IF threads.writer.pc = "idle" THEN bm25_index
                     ELSE threads.writer.before
        begun == [IdleReader EXCEPT !.query = query, !.limit = limit,
                                    !.snapshots = {committed}]
    IN  /\ threads.reader.pc \in {"idle", "done"}
        /\ threads' = [threads EXCEPT !.reader =
             IF bm25_index.doc_count = 0 \/ _tokenize(query) = <<>>
             THEN [begun EXCEPT !.pc = "done"]
             ELSE [begun EXCEPT !.pc = "terms",
                                !.query_tokens = _tokenize(query)]]
        /\ UNCHANGED <<bm25_index, store, last, embedding_client,
                       _embedding_cache, chunking,
                rebuild, pipeline>>

\* search, lines 172-182: the next query term; its df and doc_count are read
\* for the idf and the iteration over its posting dict begins
ReaderTerm ==
  LET term == Head(threads.reader.query_tokens)
  IN  /\ threads.reader.pc = "terms"
      /\ threads.reader.query_tokens # <<>>
      /\ threads' = [threads EXCEPT !.reader =
           IF term \notin DOMAIN bm25_index.inverted_index
           THEN [@ EXCEPT !.query_tokens = Tail(@)]
           ELSE [@ EXCEPT !.pc = "postings",
                          !.query_tokens = Tail(@),
                          !.term = term,
                          !.N = bm25_index.doc_count,
                          !.df = Get(bm25_index.doc_freqs, term, 0),
                          !.size = Len(bm25_index.inverted_index[term]),
                          !.pos = 1]]
      /\ UNCHANGED <<bm25_index, store, last, embedding_client,
                     _embedding_cache, chunking,
                rebuild, pipeline>>

\* search, lines 182-189: the next item of the posting dict; a dict whose size
\* changed since the iteration began raises RuntimeError
ReaderPosting ==
  LET r == threads.reader
      posting == bm25_index.inverted_index[r.term]
      item == posting[r.pos]
  IN  /\ r.pc = "postings"
      /\ threads' = [threads EXCEPT !.reader =
           IF Len(posting) # r.size
           THEN [@ EXCEPT !.pc = "done", !.err = "RuntimeError"]
           ELSE IF r.pos > r.size
           THEN [@ EXCEPT !.pc = "terms"]
           ELSE IF item.doc \notin DOMAIN bm25_index.doc_lengths
           THEN [@ EXCEPT !.pc = "done", !.err = "KeyError"]
           ELSE IF bm25_index.avgdl.num = 0
           THEN [@ EXCEPT !.pc = "done", !.err = "ZeroDivisionError"]
           ELSE [@ EXCEPT
                   !.pos = @ + 1,
                   !.scores = ScoreAdd(@, item.doc,
                                Contribution(r.N, r.df, item.tf,
                                             bm25_index.doc_lengths[item.doc],
                                             bm25_index.avgdl))]]
      /\ UNCHANGED <<bm25_index, store, last, embedding_client,
                     _embedding_cache, chunking,
                rebuild, pipeline>>

\* search, lines 191-192: the scores are sorted and sliced, the call returns
ReaderEnd ==
  /\ threads.reader.pc = "terms"
  /\ threads.reader.query_tokens = <<>>
  /\ threads' = [threads EXCEPT !.reader =
       [@ EXCEPT !.pc = "done",
                 !.ret = Slice(SortDesc(threads.reader.scores),
                               threads.reader.limit)]]
  /\ UNCHANGED <<bm25_index, store, last, embedding_client, _embedding_cache,
                 chunking,
                rebuild, pipeline>>

NextThreads ==
  \/ WriterStore
  \/ WriterPosting
  \/ WriterCount
  \/ WriterAvgdl
  \/ ReaderBegin
  \/ ReaderTerm
  \/ ReaderPosting
  \/ ReaderEnd

SpecThreads == InitThreads /\ [][NextThreads]_vars

\* ------------------------- a rebuild of the index next to a searching thread
\* rebuild_bm25_index runs statement by statement (clear, the database read,
\* one add_document per chunk); another thread that has passed the size
\* check of bm25_search (engine.py line 144) searches the index (line 153).
InitRebuild ==
  /\ bm25_index = NewIndex
  /\ store \in Stores
  /\ last = NoCall
  /\ embedding_client = NewEmbeddingClient("")
  /\ _embedding_cache = <<>>
  /\ chunking = NoChunking
  /\ threads = NoThreads
  /\ rebuild = NoRebuild
  /\ pipeline = NoPipeline

\* self.bm25_index.clear()
RebuildClear ==
  /\ rebuild.pc = "idle"
  /\ \E subject_id \in Subjects, user_id \in Users :
       rebuild' = [NoRebuild EXCEPT !.pc = "cleared",
                     !.subject_id = subject_id, !.user_id = user_id,
                     !.before = bm25_index]
  /\ bm25_index' = clear(bm25_index)
  /\ UNCHANGED <<store, last, embedding_client, _embedding_cache, chunking,
                 threads, pipeline>>

\* chunks = get_all_chunks_for_subject(subject_id, user_id)
RebuildLoad ==
  /\ rebuild.pc = "cleared"
  /\ rebuild' = [rebuild EXCEPT !.pc = "indexing",
                   !.chunks = get_all_chunks_for_subject(
                                store, rebuild.subject_id, rebuild.user_id)]
  /\ UNCHANGED <<bm25_index, store, last, embedding_client, _embedding_cache,
                 chunking, threads, pipeline>>

\* one iteration of the loop of index_chunks
RebuildIndexChunk ==
  /\ rebuild.pc = "indexing"
  /\ rebuild.chunks # <<>>
  /\ bm25_index' = index_chunks(bm25_index, <<Head(rebuild.chunks)>>).index
  /\ rebuild' = [rebuild EXCEPT !.chunks = Tail(@)]
  /\ UNCHANGED <<store, last, embedding_client, _embedding_cache, chunking,
                 threads, pipeline>>

\* return self.index_chunks(chunks)
RebuildReturn ==
  /\ rebuild.pc = "indexing"
  /\ rebuild.chunks = <<>>
  /\ rebuild' = [rebuild EXCEPT !.pc = "idle"]
  /\ UNCHANGED <<bm25_index, store, last, embedding_client, _embedding_cache,
                 chunking, threads, pipeline>>

\* results = self.bm25_index.search(search_query, limit=top_k)
SearchNextToRebuild ==
  \E query \in ThreadQueries, limit \in Limits :
    \E r \in {search(bm25_index, query, limit)} :
      /\ rebuild' = [rebuild EXCEPT
                       !.read = [during |-> rebuild.pc # "idle",
                                 query |-> query, limit |-> limit,
                                 ret |-> r.ret, err |-> r.err]]
      /\ UNCHANGED <<bm25_index, store, last, embedding_client,
                     _embedding_cache, chunking, threads, pipeline>>

NextRebuild ==
  \/ RebuildClear
  \/ RebuildLoad
  \/ RebuildIndexChunk
  \/ RebuildReturn
  \/ SearchNextToRebuild

SpecRebuild == InitRebuild /\ [][NextRebuild]_vars

\* ------------------------------------- ingestion next to the lexical index
\* the uploads: an unreadable file, a file of blanks, a file of three
\* paragraphs of 200 letters
Contents ==
  {[readable |-> FALSE, text |-> <<>>],
   [readable |-> TRUE, text |-> <<" ", "\n">>],
   [readable |-> TRUE, text |-> Paragraphs(200, 3)]}

MimeTypes == {"text/plain", "image/png"}

InitPipeline ==
  /\ bm25_index = NewIndex
  /\ store \in Stores
  /\ last = NoCall
  /\ embedding_client = NewEmbeddingClient("")
  /\ _embedding_cache = <<>>
  /\ chunking = NoChunking
  /\ threads = NoThreads
  /\ rebuild = NoRebuild
  /\ pipeline = NoPipeline

ProcessDocumentPipeline ==
  \E document_id \in {"d1", "d2", "d3"}, content \in Contents,
     mime_type \in MimeTypes :
    \E r \in {_process_document_pipeline(store, document_id, content,
                                         mime_type)} :
      /\ store' = r.db
      /\ pipeline' = [done |-> TRUE, document_id |-> document_id,
                      content |-> content, mime_type |-> mime_type,
                      before |-> store, index |-> bm25_index,
                      err |-> r.err]
      /\ last' = [NoCall EXCEPT !.op = "_process_document_pipeline",
                    !.err = r.err]
      /\ UNCHANGED <<bm25_index, embedding_client, _embedding_cache,
                     chunking, threads, rebuild>>

NextPipeline ==
  \/ ProcessDocumentPipeline
  \/ IndexChunks

SpecPipeline == InitPipeline /\ [][NextPipeline]_vars

\* ------------------------------------------------------------------ claims
Stored == DOMAIN bm25_index.doc_texts

\* C1: after any sequence of add, add_batch and remove (and clear), avgdl is
\* the sum of the stored document lengths divided by doc_count, and is 0
\* when doc_count is 0.
AvgdlIsMeanLength ==
  IF bm25_index.doc_count = 0
  THEN bm25_index.avgdl.num = 0
  ELSE bm25_index.avgdl.num * bm25_index.doc_count
         = SumValues(bm25_index.doc_lengths) * bm25_index.avgdl.den

\* a remove that left a document of positive length behind
AvgdlAfterRemove ==
  /\ last.op = "remove_document"
  /\ last.present
  /\ Stored # {}
  /\ bm25_index.avgdl.num > 0

\* C2: size (doc_count) is the number of distinct document ids held.
SizeIsDistinctIds == size(bm25_index) = Cardinality(Stored)

\* the stored documents whose text contains term t
DocsContaining(t) == {d \in Stored : t \in Range(_tokenize(bm25_index.doc_texts[d]))}

DfOf(t) == IF t \in DOMAIN bm25_index.doc_freqs THEN bm25_index.doc_freqs[t] ELSE 0

PostingOf(t) ==
  IF t \in DOMAIN bm25_index.inverted_index
  THEN bm25_index.inverted_index[t] ELSE <<>>

Terms == {Lower(w) : w \in DocWords \cup QueryWords}

\* C3: for every term, the document-frequency counter is the number of
\* stored documents that contain the term, which is the size of its posting
\* list.
DfIsDocumentFrequency ==
  \A t \in Terms :
    /\ DfOf(t) = Cardinality(DocsContaining(t))
    /\ DfOf(t) = Len(PostingOf(t))

\* C4: the terms with a posting list are the terms with a df entry, and no
\* stored posting list is empty (a remove that empties a posting list deletes
\* it and its df entry in the same call).
PostingsMatchDocFreqs ==
  /\ DOMAIN bm25_index.inverted_index = DOMAIN bm25_index.doc_freqs
  /\ \A t \in DOMAIN bm25_index.inverted_index :
       bm25_index.inverted_index[t] # <<>>

\* a remove that emptied a posting list while another term stays indexed
PostingEmptiedByRemove ==
  /\ last.op = "remove_document"
  /\ last.emptied
  /\ DOMAIN bm25_index.inverted_index # {}

\* C5: remove_document of an id that is not stored changes no component of
\* the index.
RemoveAbsentIsNoOp ==
  [][(last'.op = "remove_document" /\ ~last'.present)
       => bm25_index' = bm25_index]_vars

\* a remove of an unknown id, made on an index that holds documents
RemovedAbsentId ==
  /\ last.op = "remove_document"
  /\ ~last.present
  /\ Stored # {}

\* C6: from any index state, for an id that is not stored: add, remove, add
\* again leaves doc_count and avgdl as they were right after the first add.
RoundTripRestores ==
  \A doc_id \in DocIds \ Stored, text \in Texts, metadata \in Metas :
    LET s1 == add_document(bm25_index, doc_id, text, metadata)
        s2 == remove_document(s1, doc_id)
        s3 == add_document(s2, doc_id, text, metadata)
    IN  /\ s3.doc_count = s1.doc_count
        /\ s3.avgdl = s1.avgdl

\* an index holding a document, from which the round trip of a new id moves
\* avgdl away and back
RoundTripMovesAvgdl ==
  /\ Stored # {}
  /\ \E doc_id \in DocIds \ Stored, text \in Texts :
       LET s1 == add_document(bm25_index, doc_id, text, NoMeta)
           s2 == remove_document(s1, doc_id)
           s3 == add_document(s2, doc_id, text, NoMeta)
       IN  /\ s1.avgdl # bm25_index.avgdl
           /\ s2.avgdl # s1.avgdl
           /\ s2.doc_count = s1.doc_count - 1
           /\ s3.avgdl = s1.avgdl

FirstReached(query, doc_id) ==
  LET v == Visits(bm25_index, _tokenize(query))
  IN  CHOOSE i \in 1..Len(v) :
        v[i].doc = doc_id /\ \A j \in 1..(i - 1) : v[j].doc # doc_id

\* C8: search returns at most limit pairs, in non-increasing score order, and
\* documents of equal score in the order in which scoring first reached them.
SearchRanksDescending ==
  \A query \in Queries, limit \in Limits :
    LET r == search(bm25_index, query, limit)
    IN  r.err = "none" =>
          /\ Len(r.ret) <= limit
          /\ \A i, j \in 1..Len(r.ret) :
               i < j =>
                 /\ r.ret[i].score >= r.ret[j].score
                 /\ r.ret[i].score = r.ret[j].score =>
                      FirstReached(query, r.ret[i].id)
                        < FirstReached(query, r.ret[j].id)

\* a search that returned two documents of equal score
SearchReturnedTie ==
  /\ last.op = "search"
  /\ last.err = "none"
  /\ Len(last.ret) >= 2
  /\ last.ret[1].score = last.ret[2].score

\* the stored documents that contain at least one term of the query
Matching(query) ==
  {d \in Stored :
     Range(_tokenize(bm25_index.doc_texts[d])) \cap Range(_tokenize(query)) # {}}

\* C9: search returns exactly the stored documents that contain at least one
\* query term (up to limit), each with a score > 0.
SearchReturnsMatchingDocs ==
  \A query \in Queries, limit \in Limits :
    LET r == search(bm25_index, query, limit)
    IN  /\ r.err = "none"
        /\ {r.ret[i].id : i \in 1..Len(r.ret)} \subseteq Matching(query)
        /\ Len(r.ret) = Min(limit, Cardinality(Matching(query)))
        /\ \A i \in 1..Len(r.ret) : r.ret[i].score > 0

\* a <= b for fractions of positive denominator
FractionLeq(a, b) == a.num * b.den <= b.num * a.den

\* C10: in every reachable state df(t) <= doc_count, so idf(t) >= 0, and for
\* the N, df, dl and avgdl of the state the contribution idf * tf_norm is >= 0
\* and non-decreasing in tf.
ContributionMonotoneInTf ==
  \A t \in DOMAIN bm25_index.inverted_index :
    LET N == bm25_index.doc_count
        df == DfOf(t)
        avgdl == bm25_index.avgdl
    IN  /\ df <= N
        /\ IdfArg(N, df).num >= IdfArg(N, df).den
        /\ avgdl.num > 0 =>
             \A d \in DOMAIN bm25_index.doc_lengths, tf \in 1..MaxTf :
               LET dl == bm25_index.doc_lengths[d]
               IN  /\ Contribution(N, df, tf, dl, avgdl) >= 0
                   /\ Contribution(N, df, tf, dl, avgdl)
                        <= Contribution(N, df, tf + 1, dl, avgdl)
                   /\ FractionLeq(TfNorm(tf, dl, avgdl),
                                  TfNorm(tf + 1, dl, avgdl))

\* a search scored a term that every counted document contains (the smallest
\* idf) and that occurs twice in a document
ScoredCommonTerm ==
  /\ last.op = "search"
  /\ last.ret # <<>>
  /\ bm25_index.doc_count >= 2
  /\ \E t \in DOMAIN bm25_index.inverted_index :
       /\ DfOf(t) = bm25_index.doc_count
       /\ \E i \in 1..Len(PostingOf(t)) : PostingOf(t)[i].tf >= 2

\* ------------------------------------------------- hybrid search claims
\* the hybrid_search calls that can be made in the current state, each with
\* the outcomes of the external calls it makes
HybridCalls ==
  {c \in [query : HybridQueries, search_query : Queries, subject_id : Subjects,
          user_id : Users, top_k : Limits, store_ok : BOOLEAN,
          api_ok : BOOLEAN, vector_ok : BOOLEAN] :
     /\ c.search_query \in Expansions(c.query, c.subject_id)
     /\ c.store_ok \in StoreOutcomes(bm25_index)
     /\ c.api_ok \in ApiOutcomes(embedding_client, _embedding_cache, c.query)
     /\ c.vector_ok \in VectorOutcomes(embedding_client, _embedding_cache,
                                       c.query, c.api_ok)}

\* the lexical search of a call, for a given top_k
Lexical(c, top_k) ==
  bm25_search(bm25_index, store, c.search_query, c.subject_id, c.user_id,
              top_k, c.store_ok)

\* the semantic sub-search of a hybrid call
Semantic(c) ==
  semantic_search_api(embedding_client, _embedding_cache, store, c.query,
                      c.subject_id, c.user_id, c.top_k * 3, c.api_ok,
                      c.vector_ok)

Hybrid(c) ==
  hybrid_search(bm25_index, embedding_client, _embedding_cache, store,
                c.query, c.search_query, c.subject_id, c.user_id, c.top_k,
                c.store_ok, c.api_ok, c.vector_ok)

\* the ids of a result list, in order
IdsOf(results) == [i \in 1..Len(results) |-> results[i].id]

\* C11: whenever the semantic sub-search returns no result, hybrid_search
\* returns the same ids in the same order as bm25_search with the same query
\* and top_k on the same index state (and fails exactly when it fails).
HybridFallsBackToLexical ==
  \A c \in HybridCalls :
    (Semantic(c).err = "none" /\ Semantic(c).ret = <<>>)
      => /\ Hybrid(c).err = Lexical(c, c.top_k).err
         /\ IdsOf(Hybrid(c).ret) = IdsOf(Lexical(c, c.top_k).ret)

\* a hybrid search whose semantic sub-search was empty returned lexical hits
HybridReturnedLexicalOnly ==
  /\ last.op = "hybrid_search"
  /\ last.semantic_empty
  /\ last.err = "none"
  /\ last.ret # <<>>

\* C12: a failure of the semantic sub-search (provider unconfigured, query
\* embedding failed, vector-store search failed) never reaches the caller of
\* hybrid_search: the call returns the lexical ranking truncated to top_k.
SemanticFailureIsAbsorbed ==
  \A c \in HybridCalls :
    (/\ Lexical(c, c.top_k * 3).err = "none"
     /\ \/ ~is_configured(embedding_client)
        \/ ~c.api_ok
        \/ ~c.vector_ok)
      => /\ Hybrid(c).err = "none"
         /\ Hybrid(c).ret = Slice(Lexical(c, c.top_k * 3).ret, c.top_k)

\* position of an id in a ranked list of distinct ids (1-based rank)
RankIn(results, doc_id) ==
  CHOOSE i \in 1..Len(results) : results[i].id = doc_id

\* x = 1/(rrf_k + r)
IsReciprocal(x, r) == x.num * (rrf_k + r) = x.den

\* x = 1/(rrf_k + r1) + 1/(rrf_k + r2)
IsReciprocalSum(x, r1, r2) ==
  x.num * ((rrf_k + r1) * (rrf_k + r2)) = x.den * ((rrf_k + r1) + (rrf_k + r2))

\* C13: the fusion of the lexical and the semantic results holds each id of
\* either list exactly once; an id in both lists has score
\* 1/(k + r_bm25) + 1/(k + r_semantic) and tag hybrid, an id in one list has
\* that list's 1/(k + r) and that list's tag.
FusionSumsReciprocalRanks ==
  \A c \in HybridCalls :
    LET b == Lexical(c, c.top_k * 3)
        s == Semantic(c)
        fused == _reciprocal_rank_fusion(b.ret, s.ret)
        Entries(id) == {i \in 1..Len(fused) : fused[i].id = id}
    IN  (b.err = "none" /\ s.err = "none") =>
          /\ ResultIds(fused) = ResultIds(b.ret) \cup ResultIds(s.ret)
          /\ \A id \in ResultIds(fused) :
               /\ Cardinality(Entries(id)) = 1
               /\ LET f == fused[CHOOSE i \in Entries(id) : TRUE]
                  IN  IF id \in ResultIds(b.ret) /\ id \in ResultIds(s.ret)
                      THEN /\ IsReciprocalSum(f.rrf_score, RankIn(b.ret, id),
                                              RankIn(s.ret, id))
                           /\ f.search_type = "hybrid"
                      ELSE IF id \in ResultIds(b.ret)
                      THEN /\ IsReciprocal(f.rrf_score, RankIn(b.ret, id))
                           /\ f.search_type = "bm25"
                      ELSE /\ IsReciprocal(f.rrf_score, RankIn(s.ret, id))
                           /\ f.search_type = "semantic"

\* a hybrid search returned a document found by both searches together with
\* a document found by one of them
FusedBothAndSingle ==
  /\ last.op = "hybrid_search"
  /\ ~last.semantic_empty
  /\ \E i \in 1..Len(last.ret) : last.ret[i].search_type = "hybrid"
  /\ \E i \in 1..Len(last.ret) : last.ret[i].search_type \in {"bm25", "semantic"}

\* C14: fusing a ranked list of distinct ids with itself keeps the order of
\* the list, and each fused score is twice the score the same document gets
\* when the list is fused with the empty list.
FusionOfIdenticalListsDoubles ==
  \A c \in HybridCalls :
    LET b == Lexical(c, c.top_k * 3)
        both == _reciprocal_rank_fusion(b.ret, b.ret)
        alone == _reciprocal_rank_fusion(b.ret, <<>>)
    IN  b.err = "none" =>
          /\ IdsOf(both) = IdsOf(b.ret)
          /\ IdsOf(alone) = IdsOf(b.ret)
          /\ \A i \in 1..Len(both) :
               both[i].score.num * alone[i].score.den
                 = 2 * alone[i].score.num * both[i].score.den

\* a hybrid search fused two rankings that list the same documents in the
\* same order
FusedIdenticalRankings ==
  /\ last.op = "hybrid_search"
  /\ Len(last.ret) >= 2
  /\ \A i \in 1..Len(last.ret) :
       /\ last.ret[i].search_type = "hybrid"
       /\ last.ret[i].bm25_rank = i
       /\ last.ret[i].semantic_rank = i

\* C15: when the semantic sub-search returns results, hybrid_search returns
\* at most top_k results, no id twice, in non-increasing order of rrf_score,
\* and the score field of each result is its rrf_score.
HybridRanksByRrf ==
  \A c \in HybridCalls :
    LET h == Hybrid(c)
    IN  (h.err = "none" /\ Semantic(c).err = "none" /\ Semantic(c).ret # <<>>)
          => /\ Len(h.ret) <= c.top_k
             /\ \A i, j \in 1..Len(h.ret) : i # j => h.ret[i].id # h.ret[j].id
             /\ \A i \in 1..(Len(h.ret) - 1) :
                  ~FractionLess(h.ret[i].rrf_score, h.ret[i + 1].rrf_score)
             /\ \A i \in 1..Len(h.ret) : h.ret[i].score = h.ret[i].rrf_score

\* a hybrid search returned two fused results of different rrf score
HybridReturnedTwoFused ==
  /\ last.op = "hybrid_search"
  /\ ~last.semantic_empty
  /\ last.err = "none"
  /\ Len(last.ret) = 2
  /\ FractionLess(last.ret[2].score, last.ret[1].score)

\* the label the context format names: filename, else original_name, else
\* "unknown"
FilenameFirst(result) ==
  IF Get(result, "filename", "") # "" THEN result.filename
  ELSE IF Get(result, "original_name", "") # "" THEN result.original_name
  ELSE "unknown"

\* C16: in every context string, whatever the search type, the source label
\* is the result's filename if it has one, else its original_name if it has
\* one, else "unknown".
SourceLabelIsFilenameFirst ==
  \A c \in HybridCalls :
    /\ Hybrid(c).err = "none" =>
         \A i \in 1..Len(Hybrid(c).ret) :
           Attribute(Hybrid(c).ret)[i].source = FilenameFirst(Hybrid(c).ret[i])
    /\ Lexical(c, c.top_k).err = "none" =>
         \A i \in 1..Len(Lexical(c, c.top_k).ret) :
           Attribute(Lexical(c, c.top_k).ret)[i].source
             = FilenameFirst(Lexical(c, c.top_k).ret[i])
    /\ Semantic(c).err = "none" =>
         \A i \in 1..Len(Semantic(c).ret) :
           Attribute(Semantic(c).ret)[i].source
             = FilenameFirst(Semantic(c).ret[i])

\* ------------------------------------------------------- chunker claims
\* C17: the chunks chunk_text returns carry chunk_index 0, 1, ..., N-1 in
\* list order, for every text and strategy, also after chunks were dropped
\* and after sentence sub-chunks were inserted.
ChunkIndexIsContiguous ==
  chunking.done =>
    \A i \in 1..Len(chunking.chunks) : chunking.chunks[i].chunk_index = i - 1

\* the paragraph strategy returned chunks that the final renumbering changed
RenumberedAfterFiltering ==
  /\ chunking.done
  /\ chunking.strategy = "paragraph"
  /\ chunking.chunks # <<>>
  /\ chunking.chunks # chunk_text_not_renumbered(chunking.engine,
                          chunking.text, chunking.page_count,
                          chunking.strategy)

\* C18: every chunk chunk_text returns has start_char < end_char, for every
\* text and strategy.
ChunkSpansAreNonEmpty ==
  chunking.done =>
    \A i \in 1..Len(chunking.chunks) :
      chunking.chunks[i].start_char < chunking.chunks[i].end_char

\* the paragraph strategy returned a sentence sub-chunk (two sentences joined
\* by a space) after another chunk
ReturnedSentenceSubChunk ==
  /\ chunking.done
  /\ chunking.strategy = "paragraph"
  /\ \E i \in 2..Len(chunking.chunks) :
       \E k \in 1..Len(chunking.chunks[i].content) :
         chunking.chunks[i].content[k] = " "

\* chunk_text(three paragraphs of 300 letters, strategy paragraph) with
\* chunk_size 500 and chunk_overlap 50 has returned
ChunkedThreeParagraphs ==
  /\ chunking.done
  /\ chunking.engine = DefaultEngine
  /\ chunking.text = Paragraphs(300, 3)
  /\ chunking.strategy = "paragraph"

\* C19: with chunk_size 500 and chunk_overlap 50 the paragraph strategy turns
\* three paragraphs of 300 characters into three chunks, one per paragraph:
\* two paragraphs and their separator (602 characters) exceed chunk_size.
ThreeParagraphsGiveThreeChunks ==
  ChunkedThreeParagraphs =>
    /\ Len(chunking.chunks) = 3
    /\ \A i \in 1..3 : chunking.chunks[i].content = Paragraph(300)

\* the three 300-letter paragraphs were chunked into more than one chunk
SplitThreeParagraphs == ChunkedThreeParagraphs /\ Len(chunking.chunks) > 1

\* C19 as stated: three paragraphs of 300 characters give two chunks, chunk 0
\* holding paragraphs 1 and 2 and chunk 1 holding paragraph 3.
ThreeParagraphsGiveTwoChunks ==
  ChunkedThreeParagraphs =>
    /\ Len(chunking.chunks) = 2
    /\ chunking.chunks[1].content = Paragraphs(300, 2)
    /\ chunking.chunks[2].content = Paragraph(300)

\* ----------------------------------------------------- concurrency claim
\* C20: a search that overlaps mutations computes its result from one
\* consistent snapshot: it returns, without error, what search returns on the
\* index as it was after some whole number of completed mutations.
SearchSeesOneSnapshot ==
  threads.reader.pc = "done" =>
    /\ threads.reader.err = "none"
    /\ \E snapshot \in threads.reader.snapshots :
         search(snapshot, threads.reader.query, threads.reader.limit).ret
           = threads.reader.ret

\* ---------------------------------------------------------- rebuild claims
\* C21: a search that runs while rebuild_bm25_index is in progress returns,
\* without error, what it returns on the complete index from before the
\* rebuild or on the complete index the rebuild builds; it never sees the
\* index empty or partly populated.
RebuildIsNeverSeenHalfDone ==
  rebuild.read.during =>
    LET after == index_chunks(NewIndex,
                   get_all_chunks_for_subject(store, rebuild.subject_id,
                                              rebuild.user_id)).index
    IN  /\ rebuild.read.err = "none"
        /\ rebuild.read.ret
             \in {search(rebuild.before, rebuild.read.query,
                         rebuild.read.limit).ret,
                  search(after, rebuild.read.query, rebuild.read.limit).ret}

\* the index built from nothing but the chunks the store lists for a scope
FreshIndex(subject_id, user_id) ==
  index_chunks(NewIndex,
               get_all_chunks_for_subject(store, subject_id, user_id)).index

\* the ids of the chunks with non-blank content the store lists for a scope
ListedIds(subject_id, user_id) ==
  LET chunks == get_all_chunks_for_subject(store, subject_id, user_id)
  IN  {chunks[i].id : i \in {k \in 1..Len(chunks) :
                                ~IsBlank(chunks[k].content)}}

\* C22: from any index state, a rebuild_bm25_index(subject, user) that
\* returns leaves exactly the index built from the chunks the store lists for
\* that scope: the stored ids are the listed ids, size is their number,
\* nothing from before the rebuild remains, and a second rebuild changes
\* nothing.
RebuildReplacesTheIndex ==
  /\ \A subject_id \in Subjects, user_id \in Users :
       \A once \in {rebuild_bm25_index(bm25_index, store, subject_id,
                                       user_id, TRUE)} :
         /\ once.err = "none"
         /\ DOMAIN once.index.doc_texts = ListedIds(subject_id, user_id)
         /\ DOMAIN once.index.doc_lengths = ListedIds(subject_id, user_id)
         /\ size(once.index) = Cardinality(ListedIds(subject_id, user_id))
         /\ once.count = size(once.index)
         /\ once.index = FreshIndex(subject_id, user_id)
         /\ rebuild_bm25_index(once.index, store, subject_id, user_id,
                               TRUE).index = once.index
  /\ (last.op = "rebuild_bm25_index" /\ last.err = "none") =>
       \E subject_id \in Subjects, user_id \in Users :
         /\ bm25_index = FreshIndex(subject_id, user_id)
         /\ last.ret = <<size(bm25_index)>>

\* a rebuild returned on an index that held documents before and holds
\* documents after
RebuiltNonEmptyIndex ==
  /\ last.op = "rebuild_bm25_index"
  /\ last.err = "none"
  /\ ~last.was_empty
  /\ size(bm25_index) > 0

\* --------------------------------------------------------- pipeline claims
\* the document of the pipeline call is a row of the documents table
PipelineDocumentKnown ==
  \E i \in 1..Len(pipeline.before.documents) :
    pipeline.before.documents[i].id = pipeline.document_id

StatusOf(db, document_id) ==
  db.documents[CHOOSE i \in 1..Len(db.documents) :
                 db.documents[i].id = document_id].status

\* what the extractor makes of the upload of the pipeline call
Extracted == extract_from_base64(pipeline.content, pipeline.mime_type)

\* extraction fails, or yields empty or whitespace-only text
ExtractionFails ==
  Extracted.error # NoError \/ StripText(Extracted.text) = <<>>

\* the chunks the chunker makes of the extracted text
PipelineChunks ==
  chunk_text(PipelineEngine, Extracted.text, Extracted.pages, "sentence")

\* the ids of the chunk rows of the document stored since the call began
NewChunkIds ==
  {c.id : c \in {r \in store.chunks \ pipeline.before.chunks :
                    r.documentId = pipeline.document_id}}

\* C23: once the pipeline of a document whose text can be extracted and
\* chunked has ended, the document is completed and its chunks are in the
\* lexical index (so that every later lexical search sees them), also when
\* the index held other chunks before.
IngestionIndexesChunks ==
  (/\ pipeline.done
   /\ PipelineDocumentKnown
   /\ ~ExtractionFails
   /\ PipelineChunks # <<>>) =>
    /\ StatusOf(store, pipeline.document_id) = "completed"
    /\ NewChunkIds # {}
    /\ NewChunkIds \subseteq DOMAIN bm25_index.doc_texts

\* C24: when extraction fails or yields blank text, the pipeline call leaves
\* the document failed, stores no chunk, leaves the lexical index and every
\* other document as they were, and returns (nothing is raised).
ExtractionFailureIsContained ==
  (/\ last.op = "_process_document_pipeline"
   /\ PipelineDocumentKnown
   /\ ExtractionFails) =>
    /\ StatusOf(store, pipeline.document_id) = "failed"
    /\ store.chunks = pipeline.before.chunks
    /\ \A i \in 1..Len(store.documents) :
         store.documents[i].id # pipeline.document_id
           => store.documents[i] = pipeline.before.documents[i]
    /\ bm25_index = pipeline.index
    /\ pipeline.err = "none"

\* C25: with the provider unconfigured, or with every request failing,
\* embed_batch returns one absent entry per text; and the pipeline of a
\* document that can be extracted and chunked then stores every chunk and
\* ends completed, without raising.
EmbeddingOutageIsNotFatal ==
  /\ \A api_key \in ApiKeys, api_ok \in BOOLEAN :
     \A texts \in SeqsUpTo(HybridQueries, MaxBatch) :
       (~is_configured(NewEmbeddingClient(api_key)) \/ ~api_ok) =>
         embed_batch(NewEmbeddingClient(api_key), texts, api_ok)
           = [i \in 1..Len(texts) |-> NoEmbedding]
  /\ (/\ last.op = "_process_document_pipeline"
      /\ ~is_configured(embedding_client)
      /\ PipelineDocumentKnown
      /\ ~ExtractionFails
      /\ PipelineChunks # <<>>) =>
       /\ Cardinality(NewChunkIds) = Len(PipelineChunks)
       /\ StatusOf(store, pipeline.document_id) = "completed"
       /\ pipeline.err = "none"

\* ------------------------------------------------------------ batch claims
\* the entries of a batch that add_document indexes: non-blank text and a
\* non-blank id
IndexedEntries(documents) ==
  {i \in 1..Len(documents) :
     ~IsBlank(documents[i][2]) /\ documents[i][1] # BlankId}

\* C26: add_documents and index_chunks return the number of entries that
\* were indexed, also for batches with a blank text or an invalid id.
CountIsEntriesIndexed ==
  \A documents \in Batches :
    /\ add_documents(bm25_index, documents).count
         = Cardinality(IndexedEntries(documents))
    /\ index_chunks(bm25_index,
                    [i \in 1..Len(documents) |->
                       [id |-> documents[i][1],
                        content |-> documents[i][2]]]).count
         = Cardinality(IndexedEntries(documents))


\* C27: with the sentence strategy, every chunk that holds two sentences or
\* more (the sentences carried over as overlap included) has a content of at
\* most chunk_size characters; only a chunk that is one single sentence may
\* be longer.
SentenceChunksFitChunkSize ==
  (chunking.done /\ chunking.strategy = "sentence") =>
    \A i \in 1..Len(chunking.chunks) :
      Len(_split_sentences(chunking.chunks[i].content)) >= 2 =>
        Len(chunking.chunks[i].content) <= chunking.engine.chunk_size


\* C28: the fixed strategy ends for every non-empty text and every
\* configuration with 0 <= chunk_overlap < chunk_size, because each window
\* starts strictly after the one before it, also when the window was
\* shortened to a sentence boundary.
FixedWindowsMoveForward == chunking.previous < chunking.start


\* C29: after any sequence of add_document, add_documents, remove_document
\* and clear, every document id in a posting list has a length entry, avgdl
\* is above 0 whenever some posting list is not empty, and so no search ends
\* with a KeyError or a ZeroDivisionError.
PostingsStaySearchable ==
  /\ \A term \in DOMAIN bm25_index.inverted_index :
       PostingDocs(bm25_index.inverted_index[term])
         \subseteq DOMAIN bm25_index.doc_lengths
  /\ (\E term \in DOMAIN bm25_index.inverted_index :
        bm25_index.inverted_index[term] # <<>>)
       => bm25_index.avgdl.num > 0
  /\ last.op = "search" => last.err = "none"


\* C30: in any sequence of bm25_search calls with different
\* (subject_id, user_id) scopes, every result a call returns is a chunk the
\* store lists for the scope of that call.
SearchStaysInItsScope ==
  (last.op = "bm25_search" /\ last.err = "none") =>
    \A i \in 1..Len(last.ret) :
      last.ret[i].id \in ListedIds(last.subject_id, last.user_id)

====
